---- MODULE Spec2Model ----
(***************************************************************************)
(* Model of the context-aware colour registry of true-colors:              *)
(*   src/src/colorDecorationProvider.ts  (ColorDecorationProvider)          *)
(*   src/src/extension.ts                (initializeColorVariables)         *)
(*   src/src/hoverProvider.ts            (colorParser: parseColorValue,     *)
(*       toRgbaString; tailwindParser: parseTailwindClass,                  *)
(*       resolveTailwindColor)                                              *)
(*                                                                         *)
(* CSS text is modelled at the level the scanner's regular expressions see *)
(* it: a file is a sequence of lines, a line a sequence of tokens, and each *)
(* token knows how many `.', `{' and `}' characters it carries, whether it  *)
(* matches contextPattern and whether it matches cssVarPattern.  Numerals   *)
(* are sequences of digit characters, names sequences of words and          *)
(* punctuation.                                                             *)
(***************************************************************************)
EXTENDS Integers, Sequences, FiniteSets, TLC

VARIABLES
    detectedContexts,          \* Set<string>                       (provider field)
    contextualColorVariables,  \* Map varName -> Map context -> ColorWithContext
    globalColorVariables,      \* Map varName -> ParsedColor  (the Active Registry)
    colorMode,                 \* configuration value trueColors.colorMode
    lastCall,                  \* history: the operation that ran last
    lastYield,                 \* history: what the content scanned last yields alone
    corpusLastDef,             \* history: last valid definition per variable over the provider's
                               \*          scan calls since the last replace-scan
    sameAsLast,                \* history: the last two calls were replace-scans of the same content
    cycleRead,                 \* history: contents scanned by the last full rescan
    ret,                       \* value returned by the last read accessor or pure function
    scan,                      \* locals of the scan in progress, line by line
    normalizedMapCache,        \* module variable of the Tailwind resolver
    normalizedMapSource,       \* module variable: the Map object the cache was built from
    decorationCache,           \* Map cacheKey -> TextEditorDecorationType (provider field)
    decorationStyle,           \* provider field, read from the configuration
    created,                   \* number of decoration types created so far; the n-th is object n
    cacheHistory,              \* history: when each decoration type was used last
    decorations,               \* Map uri -> decoration types (provider field), the list of
                               \* the pass in progress, the decoration types disposed
    loop,                      \* the calls of initializeColorVariables in flight
    hoverProvider,             \* the hover provider's two maps
    timers                     \* debounceTimer and fileChangeTimer of extension.ts

\* the state behind createDecoration
renderVars == <<decorationCache, decorationStyle, created, cacheHistory, decorations>>

\* the hover provider, and what else extension.ts holds beside the provider
extensionVars == <<hoverProvider, timers>>

vars == <<detectedContexts, contextualColorVariables, globalColorVariables,
          colorMode, lastCall, lastYield, corpusLastDef, sameAsLast, cycleRead, ret,
          scan, normalizedMapCache, normalizedMapSource, renderVars, loop, extensionVars>>

----------------------------------------------------------------------------
(* Bounds *)

MaxLines == 2      \* lines per scanned file
MaxFiles == 2      \* CSS files found by one full rescan
MaxAlphaLen == 3   \* characters of the alpha part of a value text
MaxModifiers == 2  \* stacked modifiers in front of a class name
MaxScanLines == 3  \* lines of a file that is scanned line by line
MaxNew == 4        \* decoration types created in one run
MaxTouches == 2    \* cache hits and cache flushes in one run
MaxBurst == 3      \* watcher events between two rescans they start
MaxInFlight == 2   \* calls of initializeColorVariables in flight at once

----------------------------------------------------------------------------
(* JavaScript Map: an insertion-ordered sequence of [key, val] entries.    *)

EmptyMap == <<>>

MapHas(m, k) == \E i \in 1..Len(m) : m[i].key = k

MapIndex(m, k) == CHOOSE i \in 1..Len(m) : m[i].key = k

MapGet(m, k) == m[MapIndex(m, k)].val

\* Map.prototype.set: an existing key keeps its position, a new key is appended
MapSet(m, k, v) ==
    IF MapHas(m, k)
    THEN [m EXCEPT ![MapIndex(m, k)] = [key |-> k, val |-> v]]
    ELSE Append(m, [key |-> k, val |-> v])

MapKeys(m) == {m[i].key : i \in 1..Len(m)}

----------------------------------------------------------------------------
(* Text model *)

\* a run of decimal digits, one character per element
DigitValue(c) ==
    CASE c = "0" -> 0 [] c = "1" -> 1 [] c = "2" -> 2 [] c = "3" -> 3 [] c = "4" -> 4
      [] c = "5" -> 5 [] c = "6" -> 6 [] c = "7" -> 7 [] c = "8" -> 8 [] c = "9" -> 9

DigitChar(n) == <<"0", "1", "2", "3", "4", "5", "6", "7", "8", "9">>[n + 1]

IsDigit(c) == c \in {"0", "1", "2", "3", "4", "5", "6", "7", "8", "9"}

\* the decimal numeral of a non-negative integer; also Number -> string for such
RECURSIVE Numeral(_)
Numeral(n) ==
    IF n < 10 THEN <<DigitChar(n)>>
    ELSE Append(Numeral(n \div 10), DigitChar(n % 10))

\* value texts that rgbPattern matches, by capture group: `r g b' with three
\* \d+ runs, and `r g b / a' with a as a run of [\d.]; text it does not match
Rgb(r, g, b) == [matches |-> TRUE, r |-> Numeral(r), g |-> Numeral(g), b |-> Numeral(b)]
Rgba(r, g, b, a) ==
    [matches |-> TRUE, r |-> Numeral(r), g |-> Numeral(g), b |-> Numeral(b), alpha |-> a]
NotRgb       == [matches |-> FALSE]

\* number of `.' characters of a value text
DotsOfValue(text) ==
    IF text.matches /\ "alpha" \in DOMAIN text
    THEN Cardinality({i \in 1..Len(text.alpha) : text.alpha[i] = "."})
    ELSE 0

\* tokens
Sel(name)      == [t |-> "sel", name |-> name]                 \* `.name {`
Compound(name) == [t |-> "compound", name |-> name]            \* `.card .name {`
Qualified(name) == [t |-> "qualified", name |-> name]          \* `div.name {`, `body .name {`
Def(var, val)  == [t |-> "def", var |-> var, val |-> val]      \* `--var: val;`
Open           == [t |-> "open"]                               \* `:root {`
Close          == [t |-> "close"]                              \* `}`

\* number of `.' characters of a token (dotsPattern)
Dots(tok) == CASE tok.t = "sel" -> 1
               [] tok.t = "qualified" -> 1
               [] tok.t = "compound" -> 2
               [] tok.t = "def" -> DotsOfValue(tok.val)
               [] OTHER -> 0

\* number of `{' characters of a token (openBracesPattern)
OpenBraces(tok) == IF tok.t \in {"sel", "compound", "qualified", "open"} THEN 1 ELSE 0

\* number of `}' characters of a token (closeBracesPattern)
CloseBraces(tok) == IF tok.t = "close" THEN 1 ELSE 0

\* does contextPattern /\.([\w-]+)\s*\{/ match inside the token
MatchesContext(tok) == tok.t \in {"sel", "compound", "qualified"}

RECURSIVE DotsIn(_)
DotsIn(line) ==            \* (line.match(dotsPattern) || []).length
    IF line = <<>> THEN 0 ELSE Dots(Head(line)) + DotsIn(Tail(line))

RECURSIVE OpenBracesIn(_)
OpenBracesIn(line) ==      \* (line.match(openBracesPattern) || []).length
    IF line = <<>> THEN 0 ELSE OpenBraces(Head(line)) + OpenBracesIn(Tail(line))

RECURSIVE CloseBracesIn(_)
CloseBracesIn(line) ==     \* (line.match(closeBracesPattern) || []).length
    IF line = <<>> THEN 0 ELSE CloseBraces(Head(line)) + CloseBracesIn(Tail(line))

----------------------------------------------------------------------------
(* colorParser *)

NoColor == [none |-> TRUE]      \* null / undefined

\* parseInt(digits, 10) of a \d+ run
RECURSIVE parseInt(_)
parseInt(digits) ==
    IF digits = <<>> THEN 0
    ELSE parseInt(SubSeq(digits, 1, Len(digits) - 1)) * 10 + DigitValue(digits[Len(digits)])

\* length of the longest run of digits at the start of chars
RECURSIVE DigitRun(_)
DigitRun(chars) ==
    IF chars # <<>> /\ IsDigit(Head(chars)) THEN 1 + DigitRun(Tail(chars)) ELSE 0

RECURSIVE Pow10(_)
Pow10(n) == IF n = 0 THEN 1 ELSE 10 * Pow10(n - 1)

NaN == [nan |-> TRUE, num |-> 0, den |-> 1]

\* parseFloat of a run of [\d.]: the longest prefix `digits', `digits.digits',
\* `digits.' or `.digits' as the fraction num/den, NaN when there is none
parseFloat(chars) ==
    LET i == DigitRun(chars)
        afterInt == SubSeq(chars, i + 1, Len(chars))
        f == IF afterInt # <<>> /\ Head(afterInt) = "." THEN DigitRun(Tail(afterInt)) ELSE 0
    IN IF i = 0 /\ f = 0 THEN NaN
       ELSE [nan |-> FALSE,
             num |-> parseInt(SubSeq(chars, 1, i)) * Pow10(f)
                        + parseInt(SubSeq(chars, i + 2, i + 1 + f)),
             den |-> Pow10(f)]

\* alpha < 0 || alpha > 1 (every comparison with NaN is false)
AlphaOutOfRange(alpha) == ~alpha.nan /\ (alpha.num < 0 \/ alpha.num > alpha.den)

\* rgbPattern must match, every component must lie in 0..255, an alpha must
\* pass the range test; the result carries alpha only when the text has one
parseColorValue(text) ==
    IF ~text.matches THEN NoColor
    ELSE LET red == parseInt(text.r)
             green == parseInt(text.g)
             blue == parseInt(text.b)
         IN IF red < 0 \/ red > 255 \/ green < 0 \/ green > 255 \/ blue < 0 \/ blue > 255
            THEN NoColor
            ELSE IF "alpha" \in DOMAIN text
                 THEN IF AlphaOutOfRange(parseFloat(text.alpha))
                      THEN NoColor
                      ELSE [red |-> red, green |-> green, blue |-> blue,
                            alpha |-> parseFloat(text.alpha)]
                 ELSE [red |-> red, green |-> green, blue |-> blue]

\* Number -> string of a non-negative fraction num/den, den a power of ten
RECURSIVE TrimZeros(_)
TrimZeros(x) ==
    IF x.den > 1 /\ x.num % 10 = 0
    THEN TrimZeros([x EXCEPT !.num = @ \div 10, !.den = @ \div 10])
    ELSE x

RECURSIVE FractionDigits(_, _)
FractionDigits(frac, den) ==
    IF den = 1 THEN <<>>
    ELSE <<DigitChar(frac \div (den \div 10))>>
            \o FractionDigits(frac % (den \div 10), den \div 10)

NumberToString(x) ==
    IF x.nan THEN <<"NaN">>
    ELSE LET t == TrimZeros(x) IN
         IF t.den = 1 THEN Numeral(t.num)
         ELSE Numeral(t.num \div t.den) \o <<".">> \o FractionDigits(t.num % t.den, t.den)

\* faulty variant: an absent alpha is rendered as 0
toRgbaStringAlphaZero(color) ==
    LET alpha == IF "alpha" \in DOMAIN color THEN color.alpha
                 ELSE [nan |-> FALSE, num |-> 0, den |-> 1]
    IN <<"rgba(">> \o Numeral(color.red) \o <<", ">> \o Numeral(color.green) \o <<", ">>
          \o Numeral(color.blue) \o <<", ">> \o NumberToString(alpha) \o <<")">>

\* `rgba(${red}, ${green}, ${blue}, ${alpha})`, alpha 1 when undefined
toRgbaString(color) ==
    LET alpha == IF "alpha" \in DOMAIN color THEN color.alpha
                 ELSE [nan |-> FALSE, num |-> 1, den |-> 1]
    IN <<"rgba(">> \o Numeral(color.red) \o <<", ">> \o Numeral(color.green) \o <<", ">>
          \o Numeral(color.blue) \o <<", ">> \o NumberToString(alpha) \o <<")">>

----------------------------------------------------------------------------
(* ColorDecorationProvider.scanCssContentForColors *)

\* locals of one scan together with the provider fields it writes
ScanState(detected, contextual, global) ==
    [detectedContexts |-> detected,
     contextualColorVariables |-> contextual,
     globalColorVariables |-> global,
     bracketDepth |-> 0,
     contextStack |-> <<>>]

\* faulty variant: the registry is cleared even when merge is set
ClearAlways(detected, contextual, global, merge) ==
    ScanState({}, EmptyMap, global)

\* faulty variant: the registry is never cleared
ClearNever(detected, contextual, global, merge) ==
    ScanState(detected, contextual, global)

\* if (options?.merge !== true) { detectedContexts.clear(); contextualColorVariables.clear(); }
ClearUnlessMerge(detected, contextual, global, merge) ==
    IF merge
    THEN ScanState(detected, contextual, global)
    ELSE ScanState({}, EmptyMap, global)

\* line.match(contextPattern): the leftmost match, or 0 when there is none
ContextMatch(line) ==
    IF \E i \in 1..Len(line) : MatchesContext(line[i])
    THEN CHOOSE i \in 1..Len(line) :
            /\ MatchesContext(line[i])
            /\ \A j \in 1..(i - 1) : ~MatchesContext(line[j])
    ELSE 0

\* faulty variant: the context is pushed without being recorded as detected
DetectContextUnrecorded(s, line) ==
    LET m == ContextMatch(line) IN
    IF m # 0 /\ DotsIn(line) = 1
    THEN [s EXCEPT !.contextStack = Append(@, [name |-> line[m].name,
                                               depth |-> s.bracketDepth])]
    ELSE s

\* step 1: a matching line with exactly one dot opens a context
DetectContext(s, line) ==
    LET m == ContextMatch(line) IN
    IF m # 0 /\ DotsIn(line) = 1
    THEN [s EXCEPT !.detectedContexts = @ \cup {line[m].name},
                   !.contextStack = Append(@, [name |-> line[m].name,
                                               depth |-> s.bracketDepth])]
    ELSE s

\* step 2: the top of the stack, or 'global'
CurrentContext(s) ==
    IF Len(s.contextStack) > 0
    THEN s.contextStack[Len(s.contextStack)].name
    ELSE "global"

\* faulty variant: a variable the active registry already knows is skipped
RecordDefinitionIfNew(s, varName, currentContext, color) ==
    LET contexts == IF MapHas(s.contextualColorVariables, varName)
                    THEN MapGet(s.contextualColorVariables, varName)
                    ELSE EmptyMap
    IN IF MapHas(s.globalColorVariables, varName) THEN s
       ELSE [s EXCEPT
               !.contextualColorVariables =
                   MapSet(@, varName,
                          MapSet(contexts, currentContext,
                                 [color |-> color, context |-> currentContext])),
               !.globalColorVariables = MapSet(@, varName, color)]

\* faulty variant: the definition is stored by context only
RecordDefinitionContextOnly(s, varName, currentContext, color) ==
    LET contexts == IF MapHas(s.contextualColorVariables, varName)
                    THEN MapGet(s.contextualColorVariables, varName)
                    ELSE EmptyMap
    IN [s EXCEPT
          !.contextualColorVariables =
              MapSet(@, varName,
                     MapSet(contexts, currentContext,
                            [color |-> color, context |-> currentContext]))]

\* faulty variant: a (variable, context) pair that is stored is not overwritten
RecordDefinitionKeepFirst(s, varName, currentContext, color) ==
    IF MapHas(s.contextualColorVariables, varName)
          /\ MapHas(MapGet(s.contextualColorVariables, varName), currentContext)
    THEN s
    ELSE RecordDefinitionContextOnly(
            [s EXCEPT !.globalColorVariables = MapSet(@, varName, color)],
            varName, currentContext, color)

\* the body of `if (color) { ... }`
RecordDefinition(s, varName, currentContext, color) ==
    LET withVar == IF MapHas(s.contextualColorVariables, varName)
                   THEN s.contextualColorVariables
                   ELSE MapSet(s.contextualColorVariables, varName, EmptyMap)
        contexts == MapGet(withVar, varName)
    IN [s EXCEPT
          !.contextualColorVariables =
              MapSet(withVar, varName,
                     MapSet(contexts, currentContext,
                            [color |-> color, context |-> currentContext])),
          !.globalColorVariables = MapSet(@, varName, color)]

\* faulty variant: extraction stops at the first value that is no colour
RECURSIVE ExtractVariablesUntilInvalid(_, _, _)
ExtractVariablesUntilInvalid(s, line, currentContext) ==
    IF line = <<>> THEN s
    ELSE LET tok == Head(line)
             color == IF tok.t = "def" THEN parseColorValue(tok.val) ELSE NoColor
         IN IF tok.t = "def" /\ color = NoColor THEN s
            ELSE ExtractVariablesUntilInvalid(
                    IF tok.t = "def"
                    THEN RecordDefinition(s, tok.var, currentContext, color)
                    ELSE s,
                    Tail(line), currentContext)

\* step 3: every cssVarPattern match of the line, left to right
RECURSIVE ExtractVariables(_, _, _)
ExtractVariables(s, line, currentContext) ==
    IF line = <<>> THEN s
    ELSE LET tok == Head(line)
             color == IF tok.t = "def" THEN parseColorValue(tok.val) ELSE NoColor
             next == IF tok.t = "def" /\ color # NoColor
                     THEN RecordDefinition(s, tok.var, currentContext, color)
                     ELSE s
         IN ExtractVariables(next, Tail(line), currentContext)

\* faulty variant: an entry recorded at the depth reached is kept
RECURSIVE PopClosedDeeper(_, _)
PopClosedDeeper(stack, depth) ==
    IF Len(stack) > 0 /\ stack[Len(stack)].depth > depth
    THEN PopClosedDeeper(SubSeq(stack, 1, Len(stack) - 1), depth)
    ELSE stack

\* while (stack.length > 0 && top.depth >= bracketDepth) stack.pop()
RECURSIVE PopClosed(_, _)
PopClosed(stack, depth) ==
    IF Len(stack) > 0 /\ stack[Len(stack)].depth >= depth
    THEN PopClosed(SubSeq(stack, 1, Len(stack) - 1), depth)
    ELSE stack

Max(a, b) == IF a >= b THEN a ELSE b

\* faulty variant: the depth is decremented without Math.max(0, ...)
RECURSIVE CloseBracesLoopUnclamped(_, _)
CloseBracesLoopUnclamped(s, n) ==
    IF n = 0 THEN s
    ELSE LET depth == s.bracketDepth - 1
         IN CloseBracesLoopUnclamped([s EXCEPT !.bracketDepth = depth,
                                               !.contextStack = PopClosed(@, depth)],
                                     n - 1)

\* one iteration of `for (let i = 0; i < closeBraces; i++)`
RECURSIVE CloseBracesLoop(_, _)
CloseBracesLoop(s, n) ==
    IF n = 0 THEN s
    ELSE LET depth == Max(0, s.bracketDepth - 1)
         IN CloseBracesLoop([s EXCEPT !.bracketDepth = depth,
                                      !.contextStack = PopClosed(@, depth)],
                            n - 1)

\* step 4
UpdateDepth(s, line) ==
    CloseBracesLoop([s EXCEPT !.bracketDepth = @ + OpenBracesIn(line)],
                    CloseBracesIn(line))

\* faulty variant: the depth is updated before the variables are extracted
ProcessLineDepthFirst(s, line) ==
    LET s1 == DetectContext(s, line)
        s2 == UpdateDepth(s1, line)
    IN ExtractVariables(s2, line, CurrentContext(s2))

\* the body of lines.forEach
ProcessLine(s, line) ==
    LET s1 == DetectContext(s, line)
        s2 == ExtractVariables(s1, line, CurrentContext(s1))
    IN UpdateDepth(s2, line)

RECURSIVE ScanLines(_, _)
ScanLines(s, lines) ==
    IF lines = <<>> THEN s
    ELSE ScanLines(ProcessLine(s, Head(lines)), Tail(lines))

scanCssContentForColors(detected, contextual, global, content, merge) ==
    ScanLines(ClearUnlessMerge(detected, contextual, global, merge), content)

----------------------------------------------------------------------------
(* Read accessors and rebuildGlobalVariablesForMode *)

getDetectedContexts(detected) == detected

\* faulty variant: no fallback when the variable has no colour in the mode
getColorForModeNoFallback(contextual, varName, mode) ==
    IF ~MapHas(contextual, varName) THEN NoColor
    ELSE LET contexts == MapGet(contextual, varName) IN
         IF MapHas(contexts, mode) THEN MapGet(contexts, mode).color
         ELSE NoColor

getColorForMode(contextual, varName, mode) ==
    IF ~MapHas(contextual, varName) THEN NoColor
    ELSE LET contexts == MapGet(contextual, varName) IN
         IF MapHas(contexts, mode) THEN MapGet(contexts, mode).color
         ELSE IF Len(contexts) > 0 THEN contexts[1].val.color
         ELSE NoColor

\* String.prototype.localeCompare on context names: the names that occur, in
\* the order of the collation (digits and letters; all names here are lower case)
Collation == <<"auto", "b", "dark", "global", "light", "title">>

CollationRank(name) == CHOOSE i \in 1..Len(Collation) : Collation[i] = name

localeCompare(a, b) ==
    IF CollationRank(a) < CollationRank(b) THEN -1
    ELSE IF CollationRank(a) > CollationRank(b) THEN 1
    ELSE 0

\* the place of an entry in an array that is sorted already: behind every
\* entry that does not compare greater (Array.prototype.sort is stable)
RECURSIVE InsertSorted(_, _)
InsertSorted(sorted, entry) ==
    IF sorted = <<>> THEN <<entry>>
    ELSE IF localeCompare(Head(sorted).context, entry.context) <= 0
         THEN <<Head(sorted)>> \o InsertSorted(Tail(sorted), entry)
         ELSE <<entry>> \o sorted

\* faulty variant: the array is left in insertion order
RECURSIVE SortUnsorted(_)
SortUnsorted(array) ==
    IF array = <<>> THEN <<>>
    ELSE <<Head(array)>> \o SortUnsorted(Tail(array))

\* array.sort((a, b) => a.context.localeCompare(b.context))
RECURSIVE Sort(_)
Sort(array) ==
    IF array = <<>> THEN <<>>
    ELSE InsertSorted(Sort(SubSeq(array, 1, Len(array) - 1)), array[Len(array)])

\* Array.from(contexts.entries()).map(([ctx, cwc]) => ({ context: ctx, color: cwc.color }))
ContextColors(contexts) ==
    [i \in 1..Len(contexts) |-> [context |-> contexts[i].key, color |-> contexts[i].val.color]]

\* a Map from each variable to its ContextColor[] sorted by context
getContextualColorsMap(contextual) ==
    [i \in 1..Len(contextual) |->
        [key |-> contextual[i].key, val |-> Sort(ContextColors(contextual[i].val))]]

\* faulty variant: a named mode is not looked up, the first context is taken
SelectedColorIgnoringMode(contexts, mode) ==
    IF Len(contexts) = 0 THEN NoColor
    ELSE IF mode = "auto" THEN contexts[Len(contexts)].val.color
    ELSE contexts[1].val.color

\* the colour rebuildGlobalVariablesForMode selects for one variable
SelectedColor(contexts, mode) ==
    IF mode = "auto"
    THEN IF Len(contexts) > 0 THEN contexts[Len(contexts)].val.color ELSE NoColor
    ELSE IF MapHas(contexts, mode) THEN MapGet(contexts, mode).color
         ELSE IF Len(contexts) > 0 THEN contexts[1].val.color
         ELSE NoColor

\* contextualColorVariables.forEach(...) after globalColorVariables.clear()
RECURSIVE RebuildFrom(_, _, _)
RebuildFrom(contextual, mode, global) ==
    IF contextual = <<>> THEN global
    ELSE LET e == Head(contextual)
             selectedColor == SelectedColor(e.val, mode)
         IN RebuildFrom(Tail(contextual), mode,
                        IF selectedColor # NoColor
                        THEN MapSet(global, e.key, selectedColor)
                        ELSE global)

\* faulty variant: the active registry is not cleared before it is refilled
rebuildWithoutClear(contextual, mode) ==
    RebuildFrom(contextual, mode, globalColorVariables)

rebuildGlobalVariablesForMode(contextual, mode) ==
    RebuildFrom(contextual, mode, EmptyMap)

----------------------------------------------------------------------------
(* Inputs *)

V123   == Rgb(1, 2, 3)        \* `1 2 3`
V456   == Rgb(4, 5, 6)        \* `4 5 6`
V300   == Rgb(300, 0, 0)      \* `300 0 0`, out of range
VNamed == NotRgb              \* `red`

Vars  == {"--a", "--b"}
Modes == {"auto", "light", "dark"}

\* the line shapes generated files are made of
Lines ==
    { <<Sel("light")>>,                                   \* .light {
      <<Close>>,                                          \* }
      <<Def("--a", V123)>>,                               \* --a: 1 2 3;
      <<Def("--a", V456)>> }                              \* --a: 4 5 6;

RECURSIVE SeqsUpTo(_, _)
SeqsUpTo(S, n) ==
    IF n = 0 THEN {<<>>}
    ELSE LET shorter == SeqsUpTo(S, n - 1)
         IN shorter \cup {Append(q, x) : q \in shorter, x \in S}

\* the CSS files of the workspace
ThemeLight == << <<Sel("light")>>, <<Def("--a", V123)>>, <<Close>> >>
ThemeDark  == << <<Sel("dark")>>, <<Def("--a", V456)>>, <<Close>> >>
Globals    == << <<Open>>, <<Def("--b", V123)>>, <<Close>> >>

\* further files: one-line bodies, both blocks on one line, values that do
\* not parse, a compound selector, a stray closing brace
OneLineLight == << <<Sel("light"), Def("--a", V456), Close>> >>
BothOnOneLine ==
    << <<Sel("light"), Def("--a", V123), Close, Sel("dark"), Def("--a", V456), Close>> >>
BadValues == << <<Def("--a", V300), Def("--b", VNamed)>>, <<Def("--b", V123)>> >>
CompoundSelector == << <<Compound("title")>>, <<Def("--a", V123)>>, <<Close>> >>
StrayClose == << <<Close>>, <<Sel("dark"), Def("--a", V123)>>, <<Close>> >>

SampleFiles == {ThemeLight, ThemeDark, Globals, OneLineLight,
                BothOnOneLine, BadValues, CompoundSelector, StrayClose}

\* every content a scan is called with: the generated files and two of the samples
Contents == SeqsUpTo(Lines, MaxLines) \cup {ThemeDark, Globals}

WorkspaceFiles == {ThemeLight, ThemeDark, Globals}

\* a found file with the outcome of fs.statSync / fs.readFileSync on it: read,
\* larger than 1MB, or throwing (the content of a file that is not read is never seen)
FoundFile ==
    {[content |-> c, stat |-> "ok"] : c \in WorkspaceFiles}
        \cup {[content |-> ThemeLight, stat |-> "large"],
              [content |-> ThemeDark, stat |-> "error"]}

\* results of vscode.workspace.findFiles
FoundFiles == SeqsUpTo(FoundFile, MaxFiles)

\* documents shown in editors; enabled: isDecorationEnabledForLanguage(languageId)
Documents ==
    { [languageId |-> "css", text |-> ThemeDark, enabled |-> TRUE],
      [languageId |-> "css", text |-> Globals, enabled |-> FALSE],
      [languageId |-> "typescript", text |-> <<>>, enabled |-> TRUE] }

\* vscode.window.visibleTextEditors
VisibleEditors == SeqsUpTo(Documents, 1)

----------------------------------------------------------------------------
(* History helpers *)

\* what a content yields when scanned alone
Yield(content) ==
    LET s == scanCssContentForColors({}, EmptyMap, EmptyMap, content, TRUE)
    IN [detectedContexts |-> s.detectedContexts,
        contextualColorVariables |-> s.contextualColorVariables]

NoYield == [detectedContexts |-> {}, contextualColorVariables |-> EmptyMap]

RECURSIVE Flatten(_)
Flatten(content) ==
    IF content = <<>> THEN <<>> ELSE Head(content) \o Flatten(Tail(content))

\* colour of the last valid definition of v among the tokens, else prev
LastDefOf(tokens, v, prev) ==
    LET valid == {i \in 1..Len(tokens) :
                    /\ tokens[i].t = "def"
                    /\ tokens[i].var = v
                    /\ parseColorValue(tokens[i].val) # NoColor}
    IN IF valid = {} THEN prev
       ELSE parseColorValue(tokens[CHOOSE i \in valid : \A j \in valid : j <= i].val)

NoDefs == [v \in Vars |-> NoColor]

\* Yield and the last valid definitions, tabulated for the scanned contents
YieldOf == [c \in Contents \cup SampleFiles |-> Yield(c)]

LastDefsOf == [c \in Contents \cup SampleFiles |->
                 [v \in Vars |-> LastDefOf(Flatten(c), v, NoColor)]]

\* (variable, context) pairs of a contextual registry
Pairs(contextual) ==
    UNION {{<<contextual[i].key, contextual[i].val[j].key>> :
               j \in 1..Len(contextual[i].val)} : i \in 1..Len(contextual)}

ColorAt(contextual, v, c) == MapGet(MapGet(contextual, v), c).color

NoScan == [active |-> FALSE, read |-> 0, bracketDepth |-> 0, contextStack |-> <<>>,
           line |-> <<>>, opened |-> FALSE, stray |-> FALSE, block |-> "none",
           nesting |-> <<>>, tidy |-> TRUE]

Undefined == [undefined |-> TRUE]

NoCall == [op |-> "none", merge |-> FALSE, mode |-> "", var |-> "", arg |-> <<>>]

\* no decoration type has been used, nothing has hit or flushed the cache
NoCacheHistory == [clock |-> 0,        \* calls of createDecoration so far
                   lastUse |-> <<>>,   \* per decoration type, the call that returned it last
                   misses |-> 0, touches |-> 0, hit |-> FALSE]

\* this.decorations is empty, no updateDecorations pass is assembling a list
\* (document is the uri of the pass, "" when there is none), no decoration
\* type has been disposed
NoDecorations == [stored |-> <<>>, document |-> "", assembling |-> <<>>, disposed |-> {}]

\* no call of initializeColorVariables is in flight, no CSS file in the workspace
NoLoop == [tasks |-> <<>>, current |-> 0, by |-> 0, workspace |-> <<>>, latest |-> <<>>]

----------------------------------------------------------------------------
(* extension.ts *)

\* debounceTimer: the document of the pending timeout, if there is one;
\* fileChangeTimer: the number of pending timeouts that start a rescan;
\* history: unserved, the documents changed and not updated since; burst, the
\* watcher events since the last rescan they started; coalesced, the events
\* the last rescan started by a timeout stood for
NoTimers ==
    [debounceTimer |-> <<>>, fileChangeTimer |-> 0, unserved |-> {}, burst |-> 0,
     coalesced |-> 0]

\* new CssVariableHoverProvider(new Map()): shared tells whether its
\* globalColorVariables field is the decoration provider's Map object (it is
\* an empty Map of its own until then)
NoHover == [shared |-> FALSE, contextualColorVariables |-> EmptyMap]

\* hoverProvider.updateGlobalVariables(decorationProvider.getGlobalColorVariables());
\* hoverProvider.updateContextualVariables(decorationProvider.getContextualColorsMap())
UpdateHover(contextual) ==
    [shared |-> TRUE, contextualColorVariables |-> getContextualColorsMap(contextual)]

Registry(detected, contextual, global) ==
    [detectedContexts |-> detected,
     contextualColorVariables |-> contextual,
     globalColorVariables |-> global,
     scanned |-> <<>>,          \* history: the contents scanned so far
     hover |-> NoHover]         \* the fields of the hover provider

\* faulty variant: every file is scanned without the merge option
MergeOptionNever(index) == FALSE

\* index > 0 ? { merge: true } : undefined
MergeOption(index) == index > 0

\* the body of cssFiles.forEach((fileUri, index) => ...), index counted from 0
ScanFoundFile(r, file, index) ==
    IF file.stat # "ok"
    THEN r                       \* skipped as too large, or caught and logged
    ELSE LET s == scanCssContentForColors(r.detectedContexts, r.contextualColorVariables,
                                          r.globalColorVariables, file.content,
                                          MergeOption(index))
         IN [detectedContexts |-> s.detectedContexts,
             contextualColorVariables |-> s.contextualColorVariables,
             globalColorVariables |-> s.globalColorVariables,
             scanned |-> Append(r.scanned, file.content),
             hover |-> r.hover]

RECURSIVE ScanFoundFiles(_, _, _)
ScanFoundFiles(r, cssFiles, index) ==
    IF index >= Len(cssFiles) THEN r
    ELSE ScanFoundFiles(ScanFoundFile(r, cssFiles[index + 1], index), cssFiles, index + 1)

\* faulty variant: the one-off scan replaces the registry
updateDecorationsReplacing(r, document, mode) ==
    IF Len(r.globalColorVariables) = 0 /\ document.languageId = "css"
    THEN LET s == scanCssContentForColors(r.detectedContexts, r.contextualColorVariables,
                                          r.globalColorVariables, document.text, FALSE)
         IN [detectedContexts |-> s.detectedContexts,
             contextualColorVariables |-> s.contextualColorVariables,
             globalColorVariables |->
                 rebuildGlobalVariablesForMode(s.contextualColorVariables, mode),
             scanned |-> Append(r.scanned, document.text),
             hover |-> r.hover]
    ELSE r

\* the registry part of provider.updateDecorations(document)
updateDecorations(r, document, mode) ==
    IF Len(r.globalColorVariables) = 0 /\ document.languageId = "css"
    THEN LET s == scanCssContentForColors(r.detectedContexts, r.contextualColorVariables,
                                          r.globalColorVariables, document.text, TRUE)
         IN [detectedContexts |-> s.detectedContexts,
             contextualColorVariables |-> s.contextualColorVariables,
             globalColorVariables |->
                 rebuildGlobalVariablesForMode(s.contextualColorVariables, mode),
             scanned |-> Append(r.scanned, document.text),
             hover |-> r.hover]
    ELSE r

\* visibleTextEditors.forEach: update enabled languages, clear the others
RECURSIVE refreshVisibleEditors(_, _, _)
refreshVisibleEditors(r, editors, mode) ==
    IF editors = <<>> THEN r
    ELSE refreshVisibleEditors(
            IF Head(editors).enabled
            THEN updateDecorations(r, Head(editors), mode)
            ELSE r,
            Tail(editors), mode)

\* faulty variant: the scans are not followed by a rebuild
initializeColorVariablesNoRebuild(r, cssFiles, editors, mode) ==
    LET scannedAll == ScanFoundFiles(r, cssFiles, 0)
    IN refreshVisibleEditors(
          [scannedAll EXCEPT !.hover = UpdateHover(scannedAll.contextualColorVariables)],
          editors, mode)

\* initializeColorVariables after `await findFiles` has resolved
initializeColorVariables(r, cssFiles, editors, mode) ==
    LET scannedAll == ScanFoundFiles(r, cssFiles, 0)
        rebuilt == [scannedAll EXCEPT !.globalColorVariables =
                       rebuildGlobalVariablesForMode(scannedAll.contextualColorVariables, mode)]
        shown == [rebuilt EXCEPT !.hover = UpdateHover(rebuilt.contextualColorVariables)]
    IN refreshVisibleEditors(shown, editors, mode)

----------------------------------------------------------------------------
(* State machine *)

\* the hover provider after construction, no timeout pending
InitExtension ==
    /\ hoverProvider = NoHover
    /\ timers = NoTimers

\* the provider's fields behind createDecoration after construction
InitRender ==
    /\ decorationCache = EmptyMap
    /\ decorationStyle = "highlight"
    /\ created = 0
    /\ cacheHistory = NoCacheHistory
    /\ decorations = NoDecorations

Init ==
    /\ detectedContexts = {}
    /\ contextualColorVariables = EmptyMap
    /\ globalColorVariables = EmptyMap
    /\ colorMode = "auto"
    /\ lastCall = NoCall
    /\ lastYield = NoYield
    /\ corpusLastDef = NoDefs
    /\ sameAsLast = FALSE
    /\ cycleRead = <<>>
    /\ ret = NoColor
    /\ scan = NoScan
    /\ normalizedMapCache = Undefined
    /\ normalizedMapSource = Undefined
    /\ InitRender
    /\ loop = NoLoop
    /\ InitExtension

\* provider.scanCssContentForColors(fileName, content, options)
ScanContent(content, merge) ==
    \E s \in {scanCssContentForColors(detectedContexts, contextualColorVariables,
                                      globalColorVariables, content, merge)},
       yield \in {YieldOf[content]} :
       /\ detectedContexts' = s.detectedContexts
       /\ contextualColorVariables' = s.contextualColorVariables
       /\ globalColorVariables' = s.globalColorVariables
       /\ lastCall' = [NoCall EXCEPT !.op = "scan", !.merge = merge]
       /\ lastYield' = yield
       /\ corpusLastDef' =
             [v \in Vars |-> IF LastDefsOf[content][v] # NoColor THEN LastDefsOf[content][v]
                             ELSE IF merge THEN corpusLastDef[v] ELSE NoColor]
       /\ sameAsLast' = (/\ ~merge
                         /\ lastCall.op = "scan" /\ ~lastCall.merge
                         /\ lastYield = yield)
       /\ ret' = NoColor
       /\ UNCHANGED <<colorMode, cycleRead,
                       scan, normalizedMapCache, normalizedMapSource, renderVars, loop, extensionVars>>

ScanCssContentForColors ==
    \E content \in Contents, merge \in BOOLEAN : ScanContent(content, merge)

ScanSampleFile ==
    \E content \in SampleFiles, merge \in BOOLEAN : ScanContent(content, merge)

\* provider.rebuildGlobalVariablesForMode(mode)
RebuildGlobalVariablesForMode ==
    \E mode \in Modes :
        /\ globalColorVariables' = rebuildGlobalVariablesForMode(contextualColorVariables, mode)
        /\ lastCall' = [NoCall EXCEPT !.op = "rebuild", !.mode = mode]
        /\ lastYield' = NoYield
        /\ sameAsLast' = FALSE
        /\ ret' = NoColor
        /\ UNCHANGED <<detectedContexts, contextualColorVariables, colorMode,
                       corpusLastDef, cycleRead,
                       scan, normalizedMapCache, normalizedMapSource, renderVars, loop, extensionVars>>

\* provider.getColorForMode(varName, mode)
GetColorForMode ==
    \E varName \in Vars, mode \in Modes :
        /\ ret' = getColorForMode(contextualColorVariables, varName, mode)
        /\ lastCall' = [NoCall EXCEPT !.op = "getColorForMode", !.mode = mode, !.var = varName]
        /\ lastYield' = NoYield
        /\ sameAsLast' = FALSE
        /\ UNCHANGED <<detectedContexts, contextualColorVariables, globalColorVariables,
                       colorMode, corpusLastDef, cycleRead,
                       scan, normalizedMapCache, normalizedMapSource, renderVars, loop, extensionVars>>

\* provider.getDetectedContexts()
GetDetectedContexts ==
    /\ ret' = getDetectedContexts(detectedContexts)
    /\ lastCall' = [NoCall EXCEPT !.op = "getDetectedContexts"]
    /\ lastYield' = NoYield
    /\ sameAsLast' = FALSE
    /\ UNCHANGED <<detectedContexts, contextualColorVariables, globalColorVariables,
                   colorMode, corpusLastDef, cycleRead,
                       scan, normalizedMapCache, normalizedMapSource, renderVars, loop, extensionVars>>

\* provider.getContextualColorsMap()
GetContextualColorsMap ==
    /\ contextualColorVariables # EmptyMap
    /\ ret' = getContextualColorsMap(contextualColorVariables)
    /\ lastCall' = [NoCall EXCEPT !.op = "getContextualColorsMap"]
    /\ lastYield' = NoYield
    /\ sameAsLast' = FALSE
    /\ UNCHANGED <<detectedContexts, contextualColorVariables, globalColorVariables,
                   colorMode, corpusLastDef, cycleRead,
                   scan, normalizedMapCache, normalizedMapSource, renderVars, loop, extensionVars>>

Now(r) ==
    /\ detectedContexts' = r.detectedContexts
    /\ contextualColorVariables' = r.contextualColorVariables
    /\ globalColorVariables' = r.globalColorVariables
    /\ hoverProvider' = r.hover

Here ==
    [Registry(detectedContexts, contextualColorVariables, globalColorVariables)
        EXCEPT !.hover = hoverProvider]

\* a full rescan over the files found, then the update of the visible editors
InitializeWith(cssFiles, editors) ==
    \E r \in {initializeColorVariables(Here, cssFiles, editors, colorMode)} :
       /\ Now(r)
       /\ lastCall' = [NoCall EXCEPT !.op = "initialize", !.mode = colorMode]
       /\ cycleRead' = r.scanned
       /\ lastYield' = NoYield
       /\ sameAsLast' = FALSE
       /\ UNCHANGED <<colorMode, corpusLastDef, ret,
                      scan, normalizedMapCache, normalizedMapSource, renderVars, loop, timers>>

\* activation, save of a CSS file, watcher change/create, refresh command
InitializeColorVariables ==
    \E cssFiles \in FoundFiles, editors \in VisibleEditors :
        InitializeWith(cssFiles, editors)

\* onDidChangeConfiguration with a changed trueColors.colorMode
OnDidChangeConfiguration ==
    \E mode \in Modes, editors \in VisibleEditors :
        \E r \in {refreshVisibleEditors(
                      [Here EXCEPT !.globalColorVariables =
                          rebuildGlobalVariablesForMode(contextualColorVariables, mode),
                                   !.hover = UpdateHover(contextualColorVariables)],
                      editors, mode)} :
           /\ Now(r)
           /\ colorMode' = mode
           /\ lastCall' = [NoCall EXCEPT !.op = "configuration", !.mode = mode]
           /\ lastYield' = NoYield
           /\ sameAsLast' = FALSE
           /\ UNCHANGED <<corpusLastDef, cycleRead, ret,
                       scan, normalizedMapCache, normalizedMapSource, renderVars, loop, timers>>

\* onDidChangeActiveTextEditor / debounced onDidChangeTextDocument
UpdateDecorations ==
    \E document \in Documents :
        /\ document.enabled
        /\ \E r \in {updateDecorations(Here, document, colorMode)} : Now(r)
        /\ lastCall' = [NoCall EXCEPT !.op = "updateDecorations",
                                      !.arg = <<document.languageId>>]
        /\ lastYield' = NoYield
        /\ sameAsLast' = FALSE
        /\ UNCHANGED <<colorMode, corpusLastDef, cycleRead, ret,
                       scan, normalizedMapCache, normalizedMapSource, renderVars, loop, timers>>

\* the provider's scan and rebuild interface
Next ==
    \/ ScanCssContentForColors
    \/ RebuildGlobalVariablesForMode

Spec == Init /\ [][Next]_vars

\* the provider's interface with its read accessors, over the sample files
NextAccess ==
    \/ ScanSampleFile
    \/ RebuildGlobalVariablesForMode
    \/ GetColorForMode
    \/ GetDetectedContexts
    \/ GetContextualColorsMap

SpecAccess == Init /\ [][NextAccess]_vars

\* the extension's event handlers
NextCycle ==
    \/ InitializeColorVariables
    \/ OnDidChangeConfiguration
    \/ UpdateDecorations

SpecCycle == Init /\ [][NextCycle]_vars

----------------------------------------------------------------------------
(* colorParser as called on its own: parseColorValue, then toRgbaString *)

\* values of the three numerals: in range, the two ends of the range, above it
Components == {0, 9, 255, 256}

\* the characters [\d.] the alpha group is made of
AlphaChars == {"0", "1", "5", "."}

AlphaTexts == SeqsUpTo(AlphaChars, MaxAlphaLen) \ {<<>>}

\* `007 9 255': numerals with leading zeros
LeadingZeros == [matches |-> TRUE, r |-> <<"0", "0", "7">>, g |-> <<"9">>,
                 b |-> <<"2", "5", "5">>]

\* the texts parseColorValue is called with (`red', `#fff', `-1 2 3', `1 2' and
\* `1 2 3 / x' are all texts rgbPattern does not match)
ValueTexts ==
    {Rgb(r, g, b) : r \in Components, g \in Components, b \in Components}
        \cup {Rgba(r, 9, b, a) : r \in Components, b \in Components, a \in AlphaTexts}
        \cup {NotRgb, LeadingZeros}

InitColor ==
    /\ Init!1 /\ Init!2 /\ Init!3 /\ Init!4
    /\ \E text \in ValueTexts : lastCall = [NoCall EXCEPT !.op = "text", !.arg = text]
    /\ lastYield = NoYield
    /\ corpusLastDef = NoDefs
    /\ sameAsLast = FALSE
    /\ cycleRead = <<>>
    /\ ret = NoColor
    /\ scan = NoScan
    /\ normalizedMapCache = Undefined
    /\ normalizedMapSource = Undefined
    /\ InitRender
    /\ loop = NoLoop
    /\ InitExtension

\* parseColorValue(text)
ParseColorValue ==
    /\ lastCall.op = "text"
    /\ ret' = parseColorValue(lastCall.arg)
    /\ lastCall' = [lastCall EXCEPT !.op = "parseColorValue"]
    /\ UNCHANGED <<detectedContexts, contextualColorVariables, globalColorVariables,
                   colorMode, lastYield, corpusLastDef, sameAsLast, cycleRead,
                   scan, normalizedMapCache, normalizedMapSource, renderVars, loop, extensionVars>>

\* toRgbaString(color) of the colour just parsed
ToRgbaString ==
    /\ lastCall.op = "parseColorValue"
    /\ ret # NoColor
    /\ ret' = toRgbaString(ret)
    /\ lastCall' = [lastCall EXCEPT !.op = "toRgbaString"]
    /\ UNCHANGED <<detectedContexts, contextualColorVariables, globalColorVariables,
                   colorMode, lastYield, corpusLastDef, sameAsLast, cycleRead,
                   scan, normalizedMapCache, normalizedMapSource, renderVars, loop, extensionVars>>

NextColor ==
    \/ ParseColorValue
    \/ ToRgbaString

SpecColor == InitColor /\ [][NextColor]_vars

----------------------------------------------------------------------------
(* tailwindParser: parseTailwindClass                                      *)
(* A class name is a sequence of pieces: words of [A-Za-z0-9] characters,    *)
(* the punctuation `:', `-', `/', `_' and runs of whitespace " ".            *)

\* className.trim()
RECURSIVE TrimStart(_)
TrimStart(pieces) ==
    IF pieces # <<>> /\ Head(pieces) = " " THEN TrimStart(Tail(pieces)) ELSE pieces

RECURSIVE TrimEnd(_)
TrimEnd(pieces) ==
    IF pieces # <<>> /\ pieces[Len(pieces)] = " "
    THEN TrimEnd(SubSeq(pieces, 1, Len(pieces) - 1))
    ELSE pieces

Trim(pieces) == TrimEnd(TrimStart(pieces))

\* the alternatives of modifierPattern, group-hover apart
ModifierWords == {"hover", "focus", "active", "disabled", "visited", "checked", "first",
                  "last", "odd", "even", "dark", "sm", "md", "lg", "xl", "2xl"}

\* trimmed.match(modifierPattern): the length of match[0] in pieces, 0 for no match
ModifierMatch(trimmed) ==
    IF Len(trimmed) >= 2 /\ trimmed[1] \in ModifierWords /\ trimmed[2] = ":" THEN 2
    ELSE IF Len(trimmed) >= 4 /\ SubSeq(trimmed, 1, 4) = <<"group", "-", "hover", ":">> THEN 4
    ELSE 0

\* faulty variant: a single modifier is removed
StripOneModifier(trimmed) ==
    SubSeq(trimmed, ModifierMatch(trimmed) + 1, Len(trimmed))

\* while (true) { match or break; trimmed = trimmed.substring(match[0].length) }
RECURSIVE StripModifiers(_)
StripModifiers(trimmed) ==
    IF ModifierMatch(trimmed) = 0 THEN trimmed
    ELSE StripModifiers(SubSeq(trimmed, ModifierMatch(trimmed) + 1, Len(trimmed)))

colorPrefixes == <<"text", "bg", "border", "from", "to", "via", "ring", "divide",
                   "decoration", "accent", "caret", "outline", "fill", "stroke">>

\* faulty variant: the remainder may be empty, ^prefix-(.*)$
PrefixMatchesEmpty(trimmed, prefix) ==
    Len(trimmed) >= 2 /\ trimmed[1] = prefix /\ trimmed[2] = "-"

\* trimmed.match(/^prefix-(.+)$/)
PrefixMatches(trimmed, prefix) ==
    Len(trimmed) >= 3 /\ trimmed[1] = prefix /\ trimmed[2] = "-"

\* faulty variant: the opacity suffix is kept
KeepOpacity(colorName) == colorName

\* colorName.split('/')[0]
RECURSIVE BeforeSlash(_)
BeforeSlash(colorName) ==
    IF colorName = <<>> \/ Head(colorName) = "/" THEN <<>>
    ELSE <<Head(colorName)>> \o BeforeSlash(Tail(colorName))

\* for (const { prefix, pattern } of prefixPatterns): the first pattern that matches
RECURSIVE FirstPrefixMatch(_, _)
FirstPrefixMatch(trimmed, i) ==
    IF i > Len(colorPrefixes) THEN NoColor
    ELSE IF PrefixMatches(trimmed, colorPrefixes[i])
         THEN [type |-> colorPrefixes[i],
               colorName |-> BeforeSlash(SubSeq(trimmed, 3, Len(trimmed)))]
         ELSE FirstPrefixMatch(trimmed, i + 1)

parseTailwindClass(className) ==
    FirstPrefixMatch(StripModifiers(Trim(className)), 1)

\* modifiers in front of the class names given to the parser
SomeModifiers == {<<"hover", ":">>, <<"md", ":">>, <<"2xl", ":">>,
                  <<"group", "-", "hover", ":">>}

\* bg-red-500, bg-red-500/50, text-txt-primary, bg-/50, to-blue/50/20, one name
\* per prefix, and names that are no colour utility
SomeTokens ==
    {<<"bg", "-", "red", "-", "500">>, <<"bg", "-", "red", "-", "500", "/", "50">>,
     <<"text", "-", "txt", "-", "primary">>, <<"bg", "-", "/", "50">>,
     <<"to", "-", "blue", "/", "50", "/", "20">>}
        \cup {<<colorPrefixes[i], "-", "x">> : i \in 1..Len(colorPrefixes)}
        \cup {<<>>, <<"bg">>, <<"bg", "-">>, <<"red", "-", "500">>, <<"bg", ":", "red">>,
              <<"hover", "-", "bg", "-", "red">>, <<"-", "bg", "-", "red">>,
              <<"texts", "-", "red">>, <<"flex">>, <<"p", "-", "4">>,
              <<"bg", "_", "red">>, <<"foo", ":", "bg", "-", "red">>}

RECURSIVE Concat(_)
Concat(seqs) == IF seqs = <<>> THEN <<>> ELSE Head(seqs) \o Concat(Tail(seqs))

\* a class name as its modifiers, the token behind them and the whole text
ClassNames ==
    {[modifiers |-> m, token |-> t, className |-> lead \o Concat(m) \o t \o trail] :
        m \in SeqsUpTo(SomeModifiers, MaxModifiers), t \in SomeTokens,
        lead \in {<<>>, <<" ">>}, trail \in {<<>>, <<" ">>}}

InitTailwind ==
    /\ Init!1 /\ Init!2 /\ Init!3 /\ Init!4
    /\ \E c \in ClassNames : lastCall = [NoCall EXCEPT !.op = "text", !.arg = c]
    /\ lastYield = NoYield
    /\ corpusLastDef = NoDefs
    /\ sameAsLast = FALSE
    /\ cycleRead = <<>>
    /\ ret = NoColor
    /\ scan = NoScan
    /\ normalizedMapCache = Undefined
    /\ normalizedMapSource = Undefined
    /\ InitRender
    /\ loop = NoLoop
    /\ InitExtension

\* parseTailwindClass(className)
ParseTailwindClass ==
    /\ lastCall.op = "text"
    /\ ret' = parseTailwindClass(lastCall.arg.className)
    /\ lastCall' = [lastCall EXCEPT !.op = "parseTailwindClass"]
    /\ UNCHANGED <<detectedContexts, contextualColorVariables, globalColorVariables,
                   colorMode, lastYield, corpusLastDef, sameAsLast, cycleRead,
                   scan, normalizedMapCache, normalizedMapSource, renderVars, loop, extensionVars>>

NextTailwind == ParseTailwindClass

SpecTailwind == InitTailwind /\ [][NextTailwind]_vars

----------------------------------------------------------------------------
(* tailwindParser: resolveTailwindColor                                    *)
(* Names are sequences of pieces as above, a variable name starting with   *)
(* the piece "--".                                                          *)

\* the static palette: the entries of families red and blue that are used here
tailwindColors ==
    [red  |-> [s \in {"200", "500"} |->
                 IF s = "500" THEN [r |-> 239, g |-> 68, b |-> 68]
                 ELSE [r |-> 254, g |-> 202, b |-> 202]],
     blue |-> [s \in {"500"} |-> [r |-> 59, g |-> 130, b |-> 246]]]

\* String.prototype.toLowerCase on a word
ToLowerCase(word) ==
    CASE word = "Brand" -> "brand"
      [] word = "RED" -> "red"
      [] OTHER -> word

\* s.toLowerCase().replace(/_/g, '-')
Normalize(pieces) ==
    [i \in 1..Len(pieces) |-> IF pieces[i] = "_" THEN "-" ELSE ToLowerCase(pieces[i])]

\* s.replace('txt-', 'text-'): the first occurrence only
ReplaceTxt(pieces) ==
    LET at == {i \in 1..(Len(pieces) - 1) : pieces[i] = "txt" /\ pieces[i + 1] = "-"}
    IN IF at = {} THEN pieces
       ELSE [pieces EXCEPT ![CHOOSE i \in at : \A j \in at : i <= j] = "text"]

\* key.startsWith('--') ? key.substring(2) : key
StripSigil(key) == IF key # <<>> /\ Head(key) = "--" THEN Tail(key) ELSE key

\* the loop of buildNormalizedMap over customColorMap.entries()
RECURSIVE NormalizeEntries(_, _)
NormalizeEntries(customColorMap, normalized) ==
    IF customColorMap = <<>> THEN normalized
    ELSE NormalizeEntries(Tail(customColorMap),
                          MapSet(normalized, Normalize(StripSigil(Head(customColorMap).key)),
                                 Head(customColorMap).val))

\* the Map object that the provider creates once and hands to every caller
GlobalColorVariablesObject == "ColorDecorationProvider.globalColorVariables"

\* buildNormalizedMap: the cache is reused while the source is the same object
buildNormalizedMap(cache, source, customColorMap, object) ==
    IF cache # Undefined /\ source = object
    THEN [map |-> cache, cache |-> cache, source |-> source]
    ELSE LET normalized == NormalizeEntries(customColorMap, EmptyMap)
         IN [map |-> normalized, cache |-> normalized, source |-> object]

\* tailwindColors[color]?.[shade] as a ParsedColor, or nothing
PaletteColor(color, shade) ==
    IF Len(color) = 1 /\ color[1] \in DOMAIN tailwindColors
          /\ Len(shade) = 1 /\ shade[1] \in DOMAIN tailwindColors[color[1]]
    THEN LET c == tailwindColors[color[1]][shade[1]]
         IN [red |-> c.r, green |-> c.g, blue |-> c.b]
    ELSE NoColor

\* colorName.lastIndexOf('-'), 0 when there is none
LastDash(colorName) ==
    LET at == {i \in 1..Len(colorName) : colorName[i] = "-"}
    IN IF at = {} THEN 0 ELSE CHOOSE i \in at : \A j \in at : j <= i

\* the two palette strategies: split on the last `-', then shade 500 of the whole name
StandardPalette(colorName) ==
    LET dashIdx == LastDash(colorName)
        split == IF dashIdx # 0
                 THEN PaletteColor(SubSeq(colorName, 1, dashIdx - 1),
                                   SubSeq(colorName, dashIdx + 1, Len(colorName)))
                 ELSE NoColor
    IN IF split # NoColor THEN split ELSE PaletteColor(colorName, <<"500">>)

\* resolveTailwindColor(colorName, customColorMap) with the module's cache
\* variables before the call; the result and the cache variables after it
resolveTailwindColor(colorName, customColorMap, object, cache, source) ==
    LET exact == <<"--">> \o colorName
        alias == <<"--", "text", "-">> \o SubSeq(colorName, 3, Len(colorName))
        startsWithTxt == Len(colorName) >= 2 /\ colorName[1] = "txt" /\ colorName[2] = "-"
        built == buildNormalizedMap(cache, source, customColorMap, object)
        normalizedColor == Normalize(colorName)
        fuzzy == IF MapHas(built.map, normalizedColor)
                 THEN MapGet(built.map, normalizedColor)
                 ELSE IF MapHas(built.map, ReplaceTxt(normalizedColor))
                      THEN MapGet(built.map, ReplaceTxt(normalizedColor))
                      ELSE NoColor
    IN IF MapHas(customColorMap, exact)
       THEN [color |-> MapGet(customColorMap, exact), cache |-> cache, source |-> source]
       ELSE IF startsWithTxt /\ MapHas(customColorMap, alias)
       THEN [color |-> MapGet(customColorMap, alias), cache |-> cache, source |-> source]
       ELSE [color |-> IF fuzzy # NoColor THEN fuzzy ELSE StandardPalette(colorName),
             cache |-> built.cache, source |-> built.source]

\* theme files whose variables the class names refer to
C102030 == Rgb(10, 20, 30)

TxtTheme   == << <<Def(<<"--", "txt", "-", "primary">>, C102030)>>,
                 <<Def(<<"--", "Brand", "_", "color">>, V123)>> >>
TextTheme  == << <<Def(<<"--", "text", "-", "primary">>, V456)>>,
                 <<Def(<<"--", "red", "_", "500">>, V456)>> >>
BrandTheme == << <<Sel("dark")>>, <<Def(<<"--", "Brand", "_", "color">>, V456)>>, <<Close>>,
                 <<Def(<<"--", "red", "-", "500">>, V123)>> >>

ThemeFiles == {TxtTheme, TextTheme, BrandTheme}

FoundThemes == SeqsUpTo({[content |-> c, stat |-> "ok"] : c \in ThemeFiles}, MaxFiles)

\* colour names of the classes in the documents
ColorNames == {<<"txt", "-", "primary">>, <<"brand", "-", "color">>, <<"red", "-", "500">>,
               <<"red">>, <<"blue", "-", "200">>, <<"RED", "_", "500">>}

\* a full rescan over theme files
InitializeThemes ==
    \E cssFiles \in FoundThemes : InitializeWith(cssFiles, <<>>)

\* resolveTailwindColor(classInfo.colorName, this.globalColorVariables)
ResolveTailwindColor ==
    \E colorName \in ColorNames :
        \E r \in {resolveTailwindColor(colorName, globalColorVariables,
                                        GlobalColorVariablesObject,
                                        normalizedMapCache, normalizedMapSource)} :
           /\ ret' = r.color
           /\ normalizedMapCache' = r.cache
           /\ normalizedMapSource' = r.source
           /\ lastCall' = [NoCall EXCEPT !.op = "resolveTailwindColor", !.arg = colorName]
           /\ lastYield' = NoYield
           /\ sameAsLast' = FALSE
           /\ UNCHANGED <<detectedContexts, contextualColorVariables, globalColorVariables,
                          colorMode, corpusLastDef, cycleRead, scan, renderVars, loop, extensionVars>>

NextResolve ==
    \/ InitializeThemes
    \/ RebuildGlobalVariablesForMode
    \/ ResolveTailwindColor

SpecResolve == Init /\ [][NextResolve]_vars

----------------------------------------------------------------------------
(* scanCssContentForColors, one line at a time *)

\* the line shapes of the files scanned line by line
ScanLineShapes ==
    { <<Close>>,                                          \* }
      <<Sel("light")>>,                                   \* .light {
      <<Def("--a", V123)>>,                               \* --a: 1 2 3;
      <<Sel("dark"), Def("--a", V456), Close>>,           \* .dark { --a: 4 5 6; }
      <<Def("--a", V300), Def("--b", V123)>> }            \* --a: 300 0 0; --b: 1 2 3;

\* the lines of a stylesheet with selectors of several kinds
SelectorLineShapes ==
    { <<Close>>,                                          \* }
      <<Sel("light")>>,                                   \* .light {
      <<Def("--a", V123)>>,                               \* --a: 1 2 3;
      <<Def("--a", V123), Def("--a", V456)>>,             \* --a: 1 2 3; --a: 4 5 6;
      <<Close, Open>>,                                    \* } :root {
      <<Compound("b")>>,                                  \* .a .b {
      <<Qualified("dark")>> }                             \* div.dark {

\* history: a `}' comes before the first `{' of the scanned text
StrayCloseFirst(line) ==
    \E i \in 1..Len(line) :
        /\ CloseBraces(line[i]) > 0
        /\ \A j \in 1..(i - 1) : OpenBraces(line[j]) = 0

\* history: the line is `.name {' and nothing else
IsBlockOpener(line) ==
    /\ ContextMatch(line) # 0
    /\ line[ContextMatch(line)].t = "sel"
    /\ DotsIn(line) = 1 /\ OpenBracesIn(line) = 1 /\ CloseBracesIn(line) = 0

\* history: the blocks that are open in the text behind a token, innermost last:
\* the name of a single-class block, "-" for any other block
Nest(nesting, tok) ==
    CASE tok.t = "sel" -> Append(nesting, tok.name)
      [] tok.t \in {"compound", "qualified", "open"} -> Append(nesting, "-")
      [] tok.t = "close" -> SubSeq(nesting, 1, Len(nesting) - 1)
      [] OTHER -> nesting

\* history: the open blocks behind the first n tokens of the line
RECURSIVE NestUpTo(_, _, _)
NestUpTo(nesting, line, n) ==
    IF n = 0 THEN nesting ELSE Nest(NestUpTo(nesting, line, n - 1), line[n])

\* history: the line closes no block that is not open, a single-class opener
\* on it is alone on it, and it has no qualified selector
TidyLine(nesting, line) ==
    /\ \A n \in 1..Len(line) :
          line[n].t = "close" => NestUpTo(nesting, line, n - 1) # <<>>
    /\ \A n \in 1..Len(line) : line[n].t # "qualified"
    /\ (\E n \in 1..Len(line) : line[n].t = "sel") => Len(line) = 1

\* the entry of the scan: the clear and the initial locals (the scan before it,
\* if any, has reached the end of its text)
BeginScanWith(merges) ==
    /\ \E merge \in merges :
          \E s \in {ClearUnlessMerge(detectedContexts, contextualColorVariables,
                                      globalColorVariables, merge)} :
             /\ detectedContexts' = s.detectedContexts
             /\ contextualColorVariables' = s.contextualColorVariables
             /\ globalColorVariables' = s.globalColorVariables
             /\ scan' = [active |-> TRUE, read |-> 0,
                         bracketDepth |-> s.bracketDepth, contextStack |-> s.contextStack,
                         line |-> <<>>, opened |-> FALSE, stray |-> FALSE, block |-> "none",
                         nesting |-> <<>>, tidy |-> TRUE]
             /\ lastCall' = [NoCall EXCEPT !.op = "beginScan", !.merge = merge]
    /\ UNCHANGED <<colorMode, lastYield, corpusLastDef, sameAsLast, cycleRead, ret,
                   normalizedMapCache, normalizedMapSource, renderVars, loop, extensionVars>>

\* one iteration of lines.forEach, on the next line of a text of at most
\* MaxScanLines lines
ScanLineFrom(shapes) ==
    /\ scan.active /\ scan.read < MaxScanLines
    /\ \E line \in shapes :
       \E s \in {ProcessLine([detectedContexts |-> detectedContexts,
                              contextualColorVariables |-> contextualColorVariables,
                              globalColorVariables |-> globalColorVariables,
                              bracketDepth |-> scan.bracketDepth,
                              contextStack |-> scan.contextStack], line)} :
          /\ detectedContexts' = s.detectedContexts
          /\ contextualColorVariables' = s.contextualColorVariables
          /\ globalColorVariables' = s.globalColorVariables
          /\ scan' = [active |-> TRUE, read |-> scan.read + 1,
                      bracketDepth |-> s.bracketDepth, contextStack |-> s.contextStack,
                      line |-> line,
                      opened |-> scan.opened \/ OpenBracesIn(line) > 0,
                      stray |-> scan.stray \/ (~scan.opened /\ StrayCloseFirst(line)),
                      block |-> IF IsBlockOpener(line) THEN line[ContextMatch(line)].name
                                ELSE IF OpenBracesIn(line) = 0 /\ CloseBracesIn(line) = 0
                                     THEN scan.block
                                     ELSE "none",
                      nesting |-> NestUpTo(scan.nesting, line, Len(line)),
                      tidy |-> scan.tidy /\ TidyLine(scan.nesting, line)]
          /\ lastCall' = [lastCall EXCEPT !.op = "scanLine"]
    /\ UNCHANGED <<colorMode, lastYield, corpusLastDef, sameAsLast, cycleRead, ret,
                   normalizedMapCache, normalizedMapSource, renderVars, loop, extensionVars>>

\* scanCssContentForColors is entered, with either value of merge
BeginScan == BeginScanWith(BOOLEAN)

\* the next line of a theme file is processed
ScanLine == ScanLineFrom(ScanLineShapes)

NextScan ==
    \/ BeginScan
    \/ ScanLine

SpecScan == Init /\ [][NextScan]_vars

\* scanCssContentForColors is entered on a stylesheet with several kinds of
\* selectors
BeginSelectorScan == BeginScanWith(BOOLEAN)

\* the next line of that stylesheet is processed
ScanSelectorLine == ScanLineFrom(SelectorLineShapes)

NextSelectors ==
    \/ BeginSelectorScan
    \/ ScanSelectorLine

SpecSelectors == Init /\ [][NextSelectors]_vars

----------------------------------------------------------------------------
(* ColorDecorationProvider.createDecoration and its cache *)

MAX_CACHE_SIZE == 100

DecorationStyles == {"highlight", "patch"}

\* Map.prototype.delete
MapDelete(m, k) ==
    IF MapHas(m, k)
    THEN SubSeq(m, 1, MapIndex(m, k) - 1) \o SubSeq(m, MapIndex(m, k) + 1, Len(m))
    ELSE m

\* `${this.decorationStyle}:${colorString}`
cacheKey(style, color) == <<style, ":">> \o toRgbaString(color)

\* faulty variant: a hit leaves the entry where it is
TouchInPlace(cache, key, cached) == cache

\* decorationCache.delete(cacheKey); decorationCache.set(cacheKey, cached)
Touch(cache, key, cached) == MapSet(MapDelete(cache, key), key, cached)

\* faulty variant: nothing is evicted
EvictNone(cache) == cache

\* if (size >= MAX_CACHE_SIZE) delete the first key of the Map
EvictOldest(cache) ==
    IF Len(cache) >= MAX_CACHE_SIZE
    THEN MapDelete(cache, cache[1].key)
    ELSE cache

\* oldDecoration.dispose(): the decoration types the eviction disposes
EvictedFrom(cache) ==
    IF Len(cache) >= MAX_CACHE_SIZE THEN {cache[1].val} ELSE {}

\* createDecoration(color) on the cache, with `count' decoration types created
\* before the call: the decoration type returned, the cache and the count after it
createDecoration(cache, style, count, color) ==
    LET key == cacheKey(style, color) IN
    IF MapHas(cache, key)
    THEN [decoration |-> MapGet(cache, key),
          cache |-> Touch(cache, key, MapGet(cache, key)),
          created |-> count,
          disposed |-> {}]
    ELSE [decoration |-> count + 1,
          cache |-> MapSet(EvictOldest(cache), key, count + 1),
          created |-> count + 1,
          disposed |-> EvictedFrom(cache)]

\* the colours of the tokens that are decorated, by number
Color(n) == [red |-> n % 256, green |-> (n \div 256) % 256, blue |-> 0]

\* the entries of the cache that are asked for again: the two oldest and the newest
HitPositions(cache) == {1, 2, Len(cache)} \cap (1..Len(cache))

\* the colours createDecoration is called with: the one of a cached entry, or a
\* colour that is not cached (colour n when n decoration types exist: colours
\* are created in the order of their numbers, so decoration type d is colour d - 1)
RequestedColors ==
    {created} \cup {decorationCache[i].val - 1 : i \in HitPositions(decorationCache)}

\* the cache fields and their history after createDecoration(color)
Created(cache, style, count, history, color) ==
    LET r == createDecoration(cache, style, count, color)
        hit == MapHas(cache, cacheKey(style, color))
    IN [cache |-> r.cache, created |-> r.created, decoration |-> r.decoration,
        disposed |-> r.disposed,
        history |-> [clock |-> history.clock + 1,
                     lastUse |-> IF hit
                                 THEN [history.lastUse EXCEPT
                                          ![r.decoration] = history.clock + 1]
                                 ELSE Append(history.lastUse, history.clock + 1),
                     misses |-> history.misses,
                     touches |-> history.touches,
                     hit |-> hit]]

\* createDecoration(color), called from updateDecorations: the pass in
\* progress pushes the decoration type returned on its list
CreateDecoration ==
    \E n \in RequestedColors :
       \E r \in {Created(decorationCache, decorationStyle, created, cacheHistory, Color(n))} :
          /\ IF r.history.hit
             THEN cacheHistory.touches < MaxTouches
             ELSE cacheHistory.misses < MaxNew
          /\ decorationCache' = r.cache
          /\ created' = r.created
          /\ ret' = r.decoration
          /\ decorations' =
                [decorations EXCEPT
                    !.assembling = IF decorations.document = "" THEN @
                                   ELSE Append(@, r.decoration),
                    !.disposed = @ \cup r.disposed]
          /\ cacheHistory' =
                [r.history EXCEPT
                    !.misses = IF r.history.hit THEN @ ELSE @ + 1,
                    !.touches = IF r.history.hit THEN @ + 1 ELSE @]
          /\ lastCall' = [NoCall EXCEPT !.op = "createDecoration",
                                        !.arg = cacheKey(decorationStyle, Color(n))]
          /\ UNCHANGED <<detectedContexts, contextualColorVariables, globalColorVariables,
                         colorMode, lastYield, corpusLastDef, sameAsLast, cycleRead,
                         scan, normalizedMapCache, normalizedMapSource,
                         decorationStyle, loop, extensionVars>>

\* clearDecorationCache(), on a change of trueColors.decorationStyle
ClearDecorationCache ==
    \E style \in DecorationStyles :
        /\ cacheHistory.touches < MaxTouches
        /\ decorationCache' = EmptyMap
        /\ decorationStyle' = style
        /\ decorations' = [decorations EXCEPT !.disposed =
                              @ \cup {decorationCache[i].val : i \in 1..Len(decorationCache)}]
        /\ cacheHistory' = [cacheHistory EXCEPT !.touches = @ + 1, !.hit = FALSE]
        /\ lastCall' = [NoCall EXCEPT !.op = "clearDecorationCache"]
        /\ UNCHANGED <<detectedContexts, contextualColorVariables, globalColorVariables,
                       colorMode, lastYield, corpusLastDef, sameAsLast, cycleRead, ret,
                       scan, normalizedMapCache, normalizedMapSource, created, loop, extensionVars>>

\* the cache fields after createDecoration was called for the colours 0 .. n - 1
\* in turn, n <= MAX_CACHE_SIZE: every call is a miss that appends its entry
Filled(n, style) ==
    [cache |-> [i \in 1..n |-> [key |-> cacheKey(style, Color(i - 1)), val |-> i]],
     created |-> n,
     history |-> [NoCacheHistory EXCEPT !.clock = n, !.lastUse = [i \in 1..n |-> i]],
     decorations |-> NoDecorations]

\* the provider as constructed with either configured style, or after documents
\* with MAX_CACHE_SIZE - 2 colours between them were decorated
InitCache ==
    /\ Init!1 /\ Init!2 /\ Init!3 /\ Init!4 /\ Init!5 /\ Init!6 /\ Init!7 /\ Init!8
    /\ Init!9 /\ Init!10 /\ Init!11 /\ Init!12 /\ Init!13
    /\ \E style \in DecorationStyles, n \in {0, MAX_CACHE_SIZE - 2} :
          /\ decorationStyle = style
          /\ decorationCache = Filled(n, style).cache
          /\ created = Filled(n, style).created
          /\ cacheHistory = Filled(n, style).history
          /\ decorations = Filled(n, style).decorations
    /\ loop = NoLoop
    /\ InitExtension

NextCache ==
    \/ CreateDecoration
    \/ ClearDecorationCache

SpecCache == InitCache /\ [][NextCache]_vars

\* the documents that are decorated
Uris == {"a.css", "b.css"}

\* updateDecorations(document) with a visible editor, up to its first token:
\* clearDecorations(uri), then `const decorations = []'
BeginUpdateDecorations ==
    \E uri \in Uris :
        /\ decorations.document = ""
        /\ decorations' = [decorations EXCEPT !.stored = MapDelete(@, uri),
                                              !.document = uri,
                                              !.assembling = <<>>]
        /\ lastCall' = [NoCall EXCEPT !.op = "beginUpdateDecorations", !.var = uri]
        /\ UNCHANGED <<detectedContexts, contextualColorVariables, globalColorVariables,
                       colorMode, lastYield, corpusLastDef, sameAsLast, cycleRead, ret,
                       scan, normalizedMapCache, normalizedMapSource, decorationCache,
                       decorationStyle, created, cacheHistory, loop, extensionVars>>

\* decorations.push({ decoration: this.createDecoration(color), ... }) for the
\* next token of the document
PushDecoration ==
    /\ decorations.document # ""
    /\ CreateDecoration

\* updateDecorations after its last token: this.decorations.set(uri, decorations)
EndUpdateDecorations ==
    /\ decorations.document # ""
    /\ decorations' = [decorations EXCEPT
                          !.stored = MapSet(@, decorations.document, decorations.assembling),
                          !.document = "",
                          !.assembling = <<>>]
    /\ lastCall' = [NoCall EXCEPT !.op = "endUpdateDecorations",
                                  !.var = decorations.document]
    /\ UNCHANGED <<detectedContexts, contextualColorVariables, globalColorVariables,
                   colorMode, lastYield, corpusLastDef, sameAsLast, cycleRead, ret,
                   scan, normalizedMapCache, normalizedMapSource, decorationCache,
                   decorationStyle, created, cacheHistory, loop, extensionVars>>

\* the provider as constructed, or after a.css with MAX_CACHE_SIZE - 2 colours
\* was decorated: its list holds the decoration types in the order of its tokens
InitDecorations ==
    /\ Init!1 /\ Init!2 /\ Init!3 /\ Init!4 /\ Init!5 /\ Init!6 /\ Init!7 /\ Init!8
    /\ Init!9 /\ Init!10 /\ Init!11 /\ Init!12 /\ Init!13
    /\ \E style \in DecorationStyles, n \in {0, MAX_CACHE_SIZE - 2} :
          /\ decorationStyle = style
          /\ decorationCache = Filled(n, style).cache
          /\ created = Filled(n, style).created
          /\ cacheHistory = Filled(n, style).history
          /\ decorations =
                IF n = 0 THEN NoDecorations
                ELSE [NoDecorations EXCEPT
                         !.stored = MapSet(EmptyMap, "a.css", [i \in 1..n |-> i])]
    /\ loop = NoLoop
    /\ InitExtension

\* passes of updateDecorations over the documents, one after the other
NextDecorations ==
    \/ BeginUpdateDecorations
    \/ PushDecoration
    \/ EndUpdateDecorations

SpecDecorations == InitDecorations /\ [][NextDecorations]_vars

----------------------------------------------------------------------------
(* The event loop: calls of initializeColorVariables in flight              *)
(* A call is a task [pc, cssFiles, index]: pc is the statement it executes   *)
(* next, index the number of files its forEach has visited.  loop.current    *)
(* is the task that holds the call stack (0: the stack is empty and the      *)
(* event loop dispatches the next event or continuation), loop.by the task   *)
(* that took the last step.  loop.workspace is what a search of the          *)
(* workspace finds now, loop.latest (history) what it found when the latest  *)
(* call was made.                                                            *)

\* faulty variant: the call also awaits in front of every file
AwaitsBetweenFiles(pc) == pc \in {"findFiles", "scan"}

\* the statements at which initializeColorVariables returns to the event
\* loop: `await vscode.workspace.findFiles(...)', its only await
Awaits(pc) == pc = "findFiles"

\* results of findFiles in a workspace of the two themes
LoopFiles ==
    { <<>>,
      <<[content |-> ThemeLight, stat |-> "ok"]>>,
      <<[content |-> ThemeLight, stat |-> "ok"], [content |-> ThemeDark, stat |-> "ok"]>> }

\* save of a CSS file, watcher timer, refresh command: initializeColorVariables()
\* runs up to its await; the search it starts sees the workspace as it is now
CallInitializeColorVariables ==
    /\ loop.current = 0
    /\ Len(loop.tasks) < MaxInFlight
    /\ loop' = [loop EXCEPT
                   !.tasks = Append(@, [pc |-> "findFiles", cssFiles |-> loop.workspace,
                                        index |-> 0]),
                   !.latest = loop.workspace,
                   !.by = 0]
    /\ lastCall' = [NoCall EXCEPT !.op = "callInitialize"]
    /\ UNCHANGED <<detectedContexts, contextualColorVariables, globalColorVariables,
                   colorMode, lastYield, corpusLastDef, sameAsLast, cycleRead, ret,
                   scan, normalizedMapCache, normalizedMapSource, renderVars, extensionVars>>

\* the event loop resumes a call at its await: findFiles has resolved
ResumeInitializeColorVariables ==
    \E i \in 1..Len(loop.tasks) :
        /\ loop.current = 0
        /\ Awaits(loop.tasks[i].pc)
        /\ IF loop.tasks[i].pc = "findFiles"
           THEN \E cssFiles \in {loop.tasks[i].cssFiles} :
                   loop' = [loop EXCEPT
                              !.tasks[i] = [pc |-> IF cssFiles = <<>> THEN "rebuild" ELSE "scan",
                                            cssFiles |-> cssFiles, index |-> 0],
                              !.current = i, !.by = 0]
           ELSE loop' = [loop EXCEPT !.current = i, !.by = 0]
        /\ lastCall' = [NoCall EXCEPT !.op = "resume"]
        /\ UNCHANGED <<detectedContexts, contextualColorVariables, globalColorVariables,
                       colorMode, lastYield, corpusLastDef, sameAsLast, cycleRead, ret,
                       scan, normalizedMapCache, normalizedMapSource, renderVars, extensionVars>>

\* the task after its statement at pc, and who holds the stack then
Advance(i, pc, index) ==
    [loop EXCEPT !.tasks[i].pc = pc, !.tasks[i].index = index,
                 !.current = IF Awaits(pc) THEN 0 ELSE i,
                 !.by = i]

\* the call without the task that has returned
Return(i) ==
    [loop EXCEPT
        !.tasks = SubSeq(loop.tasks, 1, i - 1) \o SubSeq(loop.tasks, i + 1, Len(loop.tasks)),
        !.current = 0, !.by = i]

\* the next statement of the call that holds the stack: one iteration of
\* cssFiles.forEach, the rebuild, the update of the hover provider, the
\* update of the visible editors
CycleStep ==
    /\ loop.current # 0
    /\ \E i \in {loop.current}, t \in {loop.tasks[loop.current]} :
          /\ lastCall' = [NoCall EXCEPT !.op = "cycle", !.mode = t.pc]
          /\ CASE t.pc = "scan" ->
                    /\ Now(ScanFoundFile(Here, t.cssFiles[t.index + 1], t.index))
                    /\ loop' = Advance(i, IF t.index + 1 < Len(t.cssFiles) THEN "scan"
                                          ELSE "rebuild", t.index + 1)
               [] t.pc = "rebuild" ->
                    /\ Now([Here EXCEPT !.globalColorVariables =
                              rebuildGlobalVariablesForMode(contextualColorVariables,
                                                            colorMode)])
                    /\ loop' = Advance(i, "hover", t.index)
               [] t.pc = "hover" ->
                    /\ Now([Here EXCEPT !.hover = UpdateHover(contextualColorVariables)])
                    /\ loop' = Advance(i, "editors", t.index)
               [] t.pc = "editors" ->
                    /\ \E editors \in VisibleEditors :
                          Now(refreshVisibleEditors(Here, editors, colorMode))
                    /\ loop' = Return(i)
    /\ UNCHANGED <<colorMode, lastYield, corpusLastDef, sameAsLast, cycleRead, ret,
                   scan, normalizedMapCache, normalizedMapSource, renderVars, timers>>

\* CSS files are created, changed or deleted in the workspace
WorkspaceChanges ==
    /\ loop.current = 0
    /\ \E cssFiles \in LoopFiles \ {loop.workspace} :
          loop' = [loop EXCEPT !.workspace = cssFiles, !.by = 0]
    /\ lastCall' = [NoCall EXCEPT !.op = "workspace"]
    /\ UNCHANGED <<detectedContexts, contextualColorVariables, globalColorVariables,
                   colorMode, lastYield, corpusLastDef, sameAsLast, cycleRead, ret,
                   scan, normalizedMapCache, normalizedMapSource, renderVars, extensionVars>>

\* provideHover on a variable: the hover provider reads the Active Registry
ProvideHover ==
    \E varName \in Vars :
        /\ ret' = IF MapHas(globalColorVariables, varName)
                  THEN MapGet(globalColorVariables, varName)
                  ELSE NoColor
        /\ lastCall' = [NoCall EXCEPT !.op = "provideHover", !.var = varName]
        /\ UNCHANGED <<detectedContexts, contextualColorVariables, globalColorVariables,
                       colorMode, lastYield, corpusLastDef, sameAsLast, cycleRead,
                       scan, normalizedMapCache, normalizedMapSource, renderVars, loop, extensionVars>>

\* faulty variant: the pending timeout is not cleared
refreshAllAfterCssChangeNoClear(pending) == pending + 1

\* refreshAllAfterCssChange: clearTimeout(fileChangeTimer), then setTimeout
refreshAllAfterCssChange(pending) == (IF pending > 0 THEN pending - 1 ELSE 0) + 1

\* onDidChangeTextDocument: a change of an enabled language re-arms the one
\* debounce timeout for the changed document
OnDidChangeTextDocument ==
    /\ loop.current = 0
    /\ \E document \in Documents :
          /\ timers' = IF document.enabled
                       THEN [timers EXCEPT !.debounceTimer = <<document>>,
                                           !.unserved = @ \cup {document}]
                       ELSE timers
          /\ lastCall' = [NoCall EXCEPT !.op = "changeTextDocument",
                                        !.arg = <<document.languageId>>]
    /\ UNCHANGED <<detectedContexts, contextualColorVariables, globalColorVariables,
                   colorMode, lastYield, corpusLastDef, sameAsLast, cycleRead, ret, scan,
                   normalizedMapCache, normalizedMapSource, renderVars, loop, hoverProvider>>

\* the debounce timeout fires: decorationProvider.updateDecorations(event.document)
DebounceTimerFires ==
    /\ loop.current = 0
    /\ timers.debounceTimer # <<>>
    /\ lastCall' = [NoCall EXCEPT !.op = "debounceTimer",
                                  !.arg = <<timers.debounceTimer[1].languageId>>]
    /\ timers' = [timers EXCEPT !.debounceTimer = <<>>,
                                !.unserved = @ \ {timers.debounceTimer[1]}]
    /\ \E r \in {updateDecorations(Here, timers.debounceTimer[1], colorMode)} : Now(r)
    /\ UNCHANGED <<colorMode, lastYield, corpusLastDef, sameAsLast, cycleRead, ret, scan,
                   normalizedMapCache, normalizedMapSource, renderVars, loop>>

\* fileWatcher.onDidChange / onDidCreate
OnCssFileEvent ==
    /\ loop.current = 0
    /\ timers.burst < MaxBurst
    /\ timers' = [timers EXCEPT !.fileChangeTimer = refreshAllAfterCssChange(@),
                                !.burst = @ + 1]
    /\ lastCall' = [NoCall EXCEPT !.op = "cssFileEvent"]
    /\ UNCHANGED <<detectedContexts, contextualColorVariables, globalColorVariables,
                   colorMode, lastYield, corpusLastDef, sameAsLast, cycleRead, ret, scan,
                   normalizedMapCache, normalizedMapSource, renderVars, loop, hoverProvider>>

\* a file change timeout fires: initializeColorVariables() runs up to its await
FileChangeTimerFires ==
    /\ loop.current = 0
    /\ timers.fileChangeTimer > 0
    /\ Len(loop.tasks) < MaxInFlight
    /\ loop' = [loop EXCEPT
                   !.tasks = Append(@, [pc |-> "findFiles", cssFiles |-> loop.workspace,
                                        index |-> 0]),
                   !.latest = loop.workspace,
                   !.by = 0]
    /\ timers' = [timers EXCEPT !.fileChangeTimer = @ - 1, !.burst = 0,
                                !.coalesced = timers.burst]
    /\ lastCall' = [NoCall EXCEPT !.op = "fileChangeTimer"]
    /\ UNCHANGED <<detectedContexts, contextualColorVariables, globalColorVariables,
                   colorMode, lastYield, corpusLastDef, sameAsLast, cycleRead, ret, scan,
                   normalizedMapCache, normalizedMapSource, renderVars, hoverProvider>>

NextTimers ==
    \/ OnDidChangeTextDocument
    \/ DebounceTimerFires
    \/ OnCssFileEvent
    \/ FileChangeTimerFires
    \/ ResumeInitializeColorVariables
    \/ CycleStep

\* timeouts fire, pending searches resolve and a call that holds the stack runs on
SpecTimers ==
    /\ Init /\ [][NextTimers]_vars
    /\ WF_vars(DebounceTimerFires) /\ WF_vars(FileChangeTimerFires)
    /\ WF_vars(ResumeInitializeColorVariables) /\ WF_vars(CycleStep)

\* the file watcher alone: events, the timeout and the rescans it starts
NextWatcher ==
    \/ OnCssFileEvent
    \/ FileChangeTimerFires
    \/ ResumeInitializeColorVariables
    \/ CycleStep

\* a pending timeout fires, a pending search resolves, a call that holds the
\* stack runs on
SpecWatcher ==
    /\ Init /\ [][NextWatcher]_vars
    /\ WF_vars(FileChangeTimerFires)
    /\ WF_vars(ResumeInitializeColorVariables) /\ WF_vars(CycleStep)

\* events are dispatched when no call holds the stack
NextLoop ==
    \/ WorkspaceChanges
    \/ CallInitializeColorVariables
    \/ ResumeInitializeColorVariables
    \/ CycleStep
    \/ (loop.current = 0 /\ OnDidChangeConfiguration)
    \/ (loop.current = 0 /\ UpdateDecorations)
    \/ (loop.current = 0 /\ ProvideHover)

SpecLoop == Init /\ [][NextLoop]_vars

----------------------------------------------------------------------------
(* The mode switch command *)

\* theme files whose class is named like the default mode and like the
\* default context
AutoTheme   == << <<Sel("auto")>>, <<Def("--a", V123)>>, <<Close>> >>
GlobalTheme == << <<Sel("global")>>, <<Def("--b", V456)>>, <<Close>> >>
\* a theme file whose class holds no value that is a colour
NamedLight  == << <<Sel("light")>>, <<Def("--a", VNamed)>>, <<Close>> >>

ModeThemes == {AutoTheme, GlobalTheme, NamedLight, ThemeLight, ThemeDark}

FoundModeThemes == SeqsUpTo({[content |-> c, stat |-> "ok"] : c \in ModeThemes}, MaxFiles)

\* a full rescan over these theme files, with no editor visible
InitializeModeThemes ==
    \E cssFiles \in FoundModeThemes : InitializeWith(cssFiles, <<>>)

\* the quick pick items: auto and every detected context
QuickPickItems(detected) == {"auto"} \cup detected

\* cssColorPreview.switchMode with the item `selected' picked: config.update
\* runs the configuration handler, then the command rebuilds and refreshes
switchMode(r, selected, editors) ==
    LET handled == refreshVisibleEditors(
                      [r EXCEPT !.globalColorVariables =
                          rebuildGlobalVariablesForMode(r.contextualColorVariables, selected),
                                !.hover = UpdateHover(r.contextualColorVariables)],
                      editors, selected)
    IN refreshVisibleEditors(
          [handled EXCEPT !.globalColorVariables =
              rebuildGlobalVariablesForMode(handled.contextualColorVariables, selected),
                          !.hover = UpdateHover(handled.contextualColorVariables)],
          editors, selected)

SwitchMode ==
    /\ detectedContexts # {}
    /\ \E selected \in QuickPickItems(detectedContexts), editors \in VisibleEditors :
          \E r \in {switchMode(Here, selected, editors)} :
             /\ Now(r)
             /\ colorMode' = selected
             /\ lastCall' = [NoCall EXCEPT !.op = "switchMode", !.mode = selected]
             /\ lastYield' = NoYield
             /\ sameAsLast' = FALSE
             /\ UNCHANGED <<corpusLastDef, cycleRead, ret,
                            scan, normalizedMapCache, normalizedMapSource, renderVars, loop, timers>>

NextMode ==
    \/ InitializeModeThemes
    \/ OnDidChangeConfiguration
    \/ UpdateDecorations
    \/ SwitchMode

SpecMode == Init /\ [][NextMode]_vars

----------------------------------------------------------------------------
(* Properties *)

C123 == [red |-> 1, green |-> 2, blue |-> 3]
C456 == [red |-> 4, green |-> 5, blue |-> 6]

IsScan(call, merge) == call.op = "scan" /\ call.merge = merge

ContextsOf(contextual, v) ==
    IF MapHas(contextual, v) THEN MapKeys(MapGet(contextual, v)) ELSE {}

\* C1: a merge-scan keeps every (variable, context) pair and every detected
\* context that was there before it; the colour of a kept pair changes only
\* when the scanned content defines that pair, and then to the content's colour.
MergeScanNeverEvicts ==
    [][IsScan(lastCall', TRUE) =>
          /\ Pairs(contextualColorVariables) \subseteq Pairs(contextualColorVariables')
          /\ detectedContexts \subseteq detectedContexts'
          /\ \A p \in Pairs(contextualColorVariables) :
                ColorAt(contextualColorVariables', p[1], p[2])
                    # ColorAt(contextualColorVariables, p[1], p[2])
                => /\ p \in Pairs(lastYield'.contextualColorVariables)
                   /\ ColorAt(contextualColorVariables', p[1], p[2])
                        = ColorAt(lastYield'.contextualColorVariables, p[1], p[2])]_vars

\* a merge-scan of content defining --a in `dark' only has just run, and the
\* `light' entry of --a from an earlier scan is still there
MergeKeptLightAddedDark ==
    /\ IsScan(lastCall, TRUE)
    /\ Pairs(lastYield.contextualColorVariables) = {<<"--a", "dark">>}
    /\ {"light", "dark"} \subseteq ContextsOf(contextualColorVariables, "--a")
    /\ {"light", "dark"} \subseteq detectedContexts

\* the (variable, context) pairs and the context names that the contents
\* scanned by the last full rescan define
CyclePairs ==
    UNION {Pairs(Yield(cycleRead[i]).contextualColorVariables) : i \in 1..Len(cycleRead)}

CycleContexts ==
    UNION {Yield(cycleRead[i]).detectedContexts : i \in 1..Len(cycleRead)}

\* C2: after a full rescan the registry holds only what the contents scanned
\* in that rescan define.
RescanLeavesOnlyScannedFiles ==
    lastCall.op = "initialize" =>
        /\ Pairs(contextualColorVariables) \subseteq CyclePairs
        /\ detectedContexts \subseteq CycleContexts

\* C3: after a full rescan the registry holds the (variable, context) pairs and
\* the contexts of every content read in that rescan.
RescanKeepsEveryFileRead ==
    lastCall.op = "initialize" =>
        /\ CyclePairs \subseteq Pairs(contextualColorVariables)
        /\ CycleContexts \subseteq detectedContexts

\* a rescan has read the light theme and then the dark theme
RescanReadLightThenDark ==
    /\ lastCall.op = "initialize"
    /\ cycleRead = <<ThemeLight, ThemeDark>>
    /\ ContextsOf(contextualColorVariables, "--a") = {"light", "dark"}

\* C4: after a rebuild in `auto' mode every variable's active colour is the
\* colour of its last valid definition in the scanned corpus.
AutoIsLastDefinition ==
    (lastCall.op = "rebuild" /\ lastCall.mode = "auto") =>
        \A v \in MapKeys(contextualColorVariables) :
            /\ MapHas(globalColorVariables, v)
            /\ MapGet(globalColorVariables, v) = corpusLastDef[v]

\* C5: after a rebuild in a named mode a variable's active colour is its colour
\* in that context when it has one, otherwise the colour of its first stored
\* context (a choice that depends on the Contextual Registry alone).
NamedModeSelection ==
    (lastCall.op = "rebuild" /\ lastCall.mode # "auto") =>
        \A v \in MapKeys(contextualColorVariables) :
            LET contexts == MapGet(contextualColorVariables, v) IN
            /\ MapHas(globalColorVariables, v)
            /\ MapGet(globalColorVariables, v) =
                  IF lastCall.mode \in MapKeys(contexts)
                  THEN ColorAt(contextualColorVariables, v, lastCall.mode)
                  ELSE contexts[1].val.color

\* a rebuild in mode `dark' where --a has a `dark' colour that is not its first
\* context and differs from it, and --b has no `dark' colour
NamedModeBothCases ==
    /\ lastCall.op = "rebuild" /\ lastCall.mode = "dark"
    /\ MapHas(contextualColorVariables, "--a")
    /\ MapHas(contextualColorVariables, "--b")
    /\ "dark" \in ContextsOf(contextualColorVariables, "--a")
    /\ MapGet(contextualColorVariables, "--a")[1].key # "dark"
    /\ MapGet(contextualColorVariables, "--a")[1].val.color
          # ColorAt(contextualColorVariables, "--a", "dark")
    /\ "dark" \notin ContextsOf(contextualColorVariables, "--b")

\* C6: after a rebuild the Active Registry has one entry per variable of the
\* Contextual Registry, no other entry, and each active colour is the colour of
\* one of the variable's contexts.
ActiveMatchesContextual ==
    lastCall.op = "rebuild" =>
        /\ MapKeys(globalColorVariables) = MapKeys(contextualColorVariables)
        /\ Len(globalColorVariables) = Cardinality(MapKeys(globalColorVariables))
        /\ \A v \in MapKeys(globalColorVariables) :
              \E c \in ContextsOf(contextualColorVariables, v) :
                  MapGet(globalColorVariables, v) = ColorAt(contextualColorVariables, v, c)

\* a rebuild over two variables, one of them with several contexts
RebuiltTwoVariables ==
    /\ lastCall.op = "rebuild"
    /\ MapKeys(contextualColorVariables) = {"--a", "--b"}
    /\ Cardinality(ContextsOf(contextualColorVariables, "--a")) >= 2

\* C7 as stated: only a rebuild changes the Active Registry.
OnlyRebuildWritesActive ==
    [][globalColorVariables' # globalColorVariables => lastCall'.op = "rebuild"]_vars

\* C7 amended: a read accessor leaves the Active Registry unchanged; a scan
\* sets the entry of every variable the content validly defines to the colour
\* of its last valid definition and leaves every other entry as it was.
ActiveWrittenByScanNotByReads ==
    [][/\ lastCall'.op \in {"getColorForMode", "getDetectedContexts"}
            => globalColorVariables' = globalColorVariables
       /\ lastCall'.op = "scan" =>
            \A v \in Vars :
                IF MapHas(lastYield'.contextualColorVariables, v)
                THEN /\ MapHas(globalColorVariables', v)
                     /\ MapGet(globalColorVariables', v) = corpusLastDef'[v]
                ELSE /\ MapHas(globalColorVariables', v) <=> MapHas(globalColorVariables, v)
                     /\ MapHas(globalColorVariables, v) =>
                          MapGet(globalColorVariables', v) = MapGet(globalColorVariables, v)]_vars

\* a scan has just written --a into the Active Registry with a colour that a
\* rebuild would not select, and has left the entry of --b in place
ScanWroteActive ==
    /\ lastCall.op = "scan"
    /\ MapHas(lastYield.contextualColorVariables, "--a")
    /\ ~MapHas(lastYield.contextualColorVariables, "--b")
    /\ MapHas(globalColorVariables, "--a")
    /\ MapHas(globalColorVariables, "--b")
    /\ \A mode \in Modes :
          globalColorVariables # rebuildGlobalVariablesForMode(contextualColorVariables, mode)

\* C8: a replace-scan of `.light { --a: 1 2 3; } .dark { --a: 4 5 6; }' given as
\* one line yields {1,2,3} for light, {4,5,6} for dark and {4,5,6} as the
\* active colour in `auto' mode.
OneLineNestingExample ==
    (IsScan(lastCall, FALSE) /\ lastYield = Yield(BothOnOneLine)) =>
        /\ getColorForMode(contextualColorVariables, "--a", "light") = C123
        /\ getColorForMode(contextualColorVariables, "--a", "dark") = C456
        /\ MapGet(rebuildGlobalVariablesForMode(contextualColorVariables, "auto"), "--a") = C456

\* C9: after a replace-scan the detected contexts and the Contextual Registry
\* are exactly what the scanned content yields alone.
ReplaceScanYieldsContentAlone ==
    IsScan(lastCall, FALSE) =>
        /\ contextualColorVariables = lastYield.contextualColorVariables
        /\ detectedContexts = lastYield.detectedContexts

\* a replace-scan of content with definitions has dropped a variable that an
\* earlier scan had registered (the Active Registry still knows it)
ReplaceScanDroppedVariable ==
    /\ IsScan(lastCall, FALSE)
    /\ contextualColorVariables # EmptyMap
    /\ \E v \in MapKeys(globalColorVariables) : ~MapHas(contextualColorVariables, v)

\* C10: a replace-scan of the content that the previous replace-scan was given
\* leaves the Contextual Registry (order included) and the detected contexts as
\* they were.
ReplaceScanIdempotent ==
    [][sameAsLast' =>
          /\ contextualColorVariables' = contextualColorVariables
          /\ detectedContexts' = detectedContexts]_vars

\* the same content with definitions in a context has been replace-scanned
\* twice in a row, starting from a registry that held another variable
ReplaceScannedTwice ==
    /\ sameAsLast
    /\ detectedContexts # {}
    /\ \E v \in MapKeys(contextualColorVariables) :
          ContextsOf(contextualColorVariables, v) \cap detectedContexts # {}
    /\ \E v \in MapKeys(globalColorVariables) : ~MapHas(contextualColorVariables, v)

----------------------------------------------------------------------------
(* read accessors *)

\* C21: getColorForMode changes no registry; it returns the variable's colour
\* in the mode when it has one, otherwise the colour of one of the variable's
\* contexts, and nothing only when the variable has no entry.
GetColorForModeContract ==
    [][lastCall'.op = "getColorForMode" =>
          LET v == lastCall'.var
              mode == lastCall'.mode
          IN /\ detectedContexts' = detectedContexts
             /\ contextualColorVariables' = contextualColorVariables
             /\ globalColorVariables' = globalColorVariables
             /\ IF <<v, mode>> \in Pairs(contextualColorVariables)
                THEN ret' = ColorAt(contextualColorVariables, v, mode)
                ELSE IF MapHas(contextualColorVariables, v)
                     THEN \E c \in ContextsOf(contextualColorVariables, v) :
                             ret' = ColorAt(contextualColorVariables, v, c)
                     ELSE ret' = NoColor]_vars

\* --a has a colour in light and in global but none in dark; asked for dark,
\* getColorForMode has answered with a colour of --a
FellBackFromDark ==
    /\ lastCall.op = "getColorForMode" /\ lastCall.var = "--a" /\ lastCall.mode = "dark"
    /\ ContextsOf(contextualColorVariables, "--a") = {"light", "global"}
    /\ ret # NoColor

\* the contexts of a ContextColor[] in the order of the array
ContextsInOrder(array) == [i \in 1..Len(array) |-> array[i].context]

\* C22: for every variable the breakdown has one entry per stored context, with
\* that context's colour, in ascending order of the context names.
BreakdownSortedAndExact ==
    lastCall.op = "getContextualColorsMap" =>
        /\ MapKeys(ret) = MapKeys(contextualColorVariables)
        /\ \A v \in MapKeys(contextualColorVariables) :
              LET array == MapGet(ret, v) IN
              /\ Len(array) = Cardinality(ContextsOf(contextualColorVariables, v))
              /\ \A c \in ContextsOf(contextualColorVariables, v) :
                    \E i \in 1..Len(array) :
                        /\ array[i].context = c
                        /\ array[i].color = ColorAt(contextualColorVariables, v, c)
              /\ \A i \in 1..(Len(array) - 1) :
                    CollationRank(array[i].context) < CollationRank(array[i + 1].context)

\* --a was stored under light first and under dark second; its breakdown lists
\* dark before light
BreakdownReordered ==
    /\ lastCall.op = "getContextualColorsMap"
    /\ MapHas(contextualColorVariables, "--a")
    /\ MapGet(contextualColorVariables, "--a")[1].key = "light"
    /\ ContextsInOrder(MapGet(ret, "--a")) = <<"dark", "light">>
    /\ MapGet(ret, "--a")[1].color # MapGet(ret, "--a")[2].color

----------------------------------------------------------------------------
(* colorParser *)

\* the text is three numerals, each a value in 0..255, with no alpha part
InRangeRgb(text) ==
    /\ text.matches
    /\ "alpha" \notin DOMAIN text
    /\ \A n \in {text.r, text.g, text.b} : \E k \in 0..255 : n = Numeral(k)

\* a decimal: digits with at most one `.', at least one digit
IsDecimal(chars) ==
    /\ \E i \in 1..Len(chars) : IsDigit(chars[i])
    /\ Cardinality({i \in 1..Len(chars) : chars[i] = "."}) <= 1

\* the decimals in [0,1] of at most MaxAlphaLen + 1 characters
DecimalsInUnit ==
    {a \in SeqsUpTo(AlphaChars, MaxAlphaLen + 1) :
        /\ IsDecimal(a)
        /\ \/ \A i \in 1..Len(a) : a[i] \in {"0", "."}
           \/ \E j \in 1..Len(a) :
                 /\ a[j] = "." /\ \A i \in 1..(j - 1) : a[i] = "0"
           \/ \E j \in 1..Len(a) :
                 /\ a[j] = "1"
                 /\ \A i \in 1..(j - 1) : a[i] = "0"
                 /\ \A i \in (j + 1)..Len(a) : a[i] \in {"0", "."}}

\* C19: parseColorValue returns a colour only for three numerals in 0..255
\* optionally followed by a decimal in [0,1]; a returned colour has components
\* in 0..255 and an alpha that is absent or a number within [0,1].
ParsedColorsAreValid ==
    (lastCall.op = "parseColorValue" /\ ret # NoColor) =>
        /\ lastCall.arg.matches
        /\ \A n \in {lastCall.arg.r, lastCall.arg.g, lastCall.arg.b} :
              parseInt(n) \in 0..255
        /\ "alpha" \in DOMAIN lastCall.arg => lastCall.arg.alpha \in DecimalsInUnit
        /\ ret.red \in 0..255 /\ ret.green \in 0..255 /\ ret.blue \in 0..255
        /\ "alpha" \in DOMAIN ret =>
              /\ ~ret.alpha.nan
              /\ 0 <= ret.alpha.num /\ ret.alpha.num <= ret.alpha.den

\* C20: for numerals r, g, b in 0..255 parseColorValue(`r g b') returns a
\* colour, and toRgbaString of it is `rgba(r, g, b, 1)'.
RgbRoundTrip ==
    InRangeRgb(lastCall.arg) =>
        /\ lastCall.op = "parseColorValue" => ret # NoColor
        /\ lastCall.op = "toRgbaString" =>
              ret = <<"rgba(">> \o lastCall.arg.r \o <<", ">> \o lastCall.arg.g \o <<", ">>
                       \o lastCall.arg.b \o <<", ">> \o <<"1">> \o <<")">>

\* `9 255 0' has been parsed and rendered
RenderedRgb ==
    /\ lastCall.op = "toRgbaString"
    /\ lastCall.arg = Rgb(9, 255, 0)
    /\ ret = <<"rgba(", "9", ", ", "2", "5", "5", ", ", "0", ", ", "1", ")">>

----------------------------------------------------------------------------
(* tailwindParser *)

\* C16: the result for modifiers m1: ... mk: in front of a token is the result
\* for the token alone.
ModifiersAreStripped ==
    lastCall.op = "parseTailwindClass" =>
        ret = parseTailwindClass(lastCall.arg.token)

\* md:hover:bg-red-500 has given prefix bg and colour name red-500
StrippedMdHover ==
    /\ lastCall.op = "parseTailwindClass"
    /\ lastCall.arg.modifiers = << <<"md", ":">>, <<"hover", ":">> >>
    /\ lastCall.arg.token = <<"bg", "-", "red", "-", "500">>
    /\ ret = [type |-> "bg", colorName |-> <<"red", "-", "500">>]

RecognizedPrefixes == {"text", "bg", "border", "from", "to", "via", "ring", "divide",
                       "decoration", "accent", "caret", "outline", "fill", "stroke"}

\* the token does not itself begin with a modifier of the vocabulary
PlainToken(t) ==
    /\ ~(Len(t) >= 2 /\ t[1] \in ModifierWords \cup {"group-hover"} /\ t[2] = ":")
    /\ ~(Len(t) >= 4 /\ t[1] = "group" /\ t[2] = "-" /\ t[3] = "hover" /\ t[4] = ":")

\* C17: there is a result exactly when the token behind the modifiers is a
\* recognized prefix, `-' and a non-empty remainder; its prefix is that prefix.
ResultIffPrefixed ==
    (lastCall.op = "parseTailwindClass" /\ PlainToken(lastCall.arg.token)) =>
        LET t == lastCall.arg.token IN
        /\ ret # NoColor <=> (Len(t) >= 3 /\ t[1] \in RecognizedPrefixes /\ t[2] = "-")
        /\ ret # NoColor => ret.type = t[1]

\* hover:stroke-x has given prefix stroke, the last of the fourteen
ParsedStroke ==
    /\ lastCall.op = "parseTailwindClass"
    /\ lastCall.arg.modifiers = << <<"hover", ":">> >>
    /\ lastCall.arg.token = <<"stroke", "-", "x">>
    /\ ret # NoColor /\ ret.type = "stroke"

\* C18: the colour name is the remainder behind the prefix up to its first `/'
\* and holds no `/'.
OpacitySuffixStripped ==
    (lastCall.op = "parseTailwindClass" /\ PlainToken(lastCall.arg.token)
        /\ ret # NoColor) =>
        LET remainder == SubSeq(lastCall.arg.token, 3, Len(lastCall.arg.token))
            n == Len(ret.colorName)
        IN /\ \A i \in 1..n : ret.colorName[i] # "/"
           /\ n <= Len(remainder)
           /\ ret.colorName = SubSeq(remainder, 1, n)
           /\ n = Len(remainder) \/ remainder[n + 1] = "/"

\* bg-red-500/50 has given the colour name red-500
StrippedOpacity50 ==
    /\ lastCall.op = "parseTailwindClass"
    /\ lastCall.arg.token = <<"bg", "-", "red", "-", "500", "/", "50">>
    /\ ret # NoColor /\ ret.colorName = <<"red", "-", "500">>

----------------------------------------------------------------------------
(* tailwindParser: resolver *)

\* C14: a resolve call returns what a resolver without cache returns on the
\* current contents of the registry.
ResolveMatchesCacheFree ==
    lastCall.op = "resolveTailwindColor" =>
        ret = resolveTailwindColor(lastCall.arg, globalColorVariables,
                                   GlobalColorVariablesObject, Undefined, Undefined).color

\* the registry variables whose normalized name is the normalized colour name
\* or its txt- to text- substitution
FuzzyKeys(registry, colorName) ==
    {k \in MapKeys(registry) :
        Normalize(StripSigil(k)) \in {Normalize(colorName), ReplaceTxt(Normalize(colorName))}}

C239 == [red |-> 239, green |-> 68, blue |-> 68]

\* C15: the first strategy that matches on the registry decides: the exact
\* variable, else the txt- alias, else a variable that matches after
\* normalization, else the palette; txt-primary with --txt-primary: 10 20 30
\* gives {10,20,30}, red-500 with no matching variable gives red/500.
ResolvePriorityOrder ==
    lastCall.op = "resolveTailwindColor" =>
        LET colorName == lastCall.arg
            registry == globalColorVariables
            exact == <<"--">> \o colorName
            alias == <<"--", "text", "-">> \o SubSeq(colorName, 3, Len(colorName))
        IN /\ IF MapHas(registry, exact) THEN ret = MapGet(registry, exact)
              ELSE IF Len(colorName) >= 2 /\ colorName[1] = "txt" /\ colorName[2] = "-"
                      /\ MapHas(registry, alias)
                   THEN ret = MapGet(registry, alias)
              ELSE IF FuzzyKeys(registry, colorName) # {}
                   THEN \E k \in FuzzyKeys(registry, colorName) : ret = MapGet(registry, k)
              ELSE ret = StandardPalette(colorName)
           /\ (colorName = <<"txt", "-", "primary">>
                  /\ MapHas(registry, <<"--", "txt", "-", "primary">>)
                  /\ MapGet(registry, <<"--", "txt", "-", "primary">>)
                        = [red |-> 10, green |-> 20, blue |-> 30])
                => ret = [red |-> 10, green |-> 20, blue |-> 30]
           /\ (colorName = <<"red", "-", "500">> /\ MapHas(registry, exact) = FALSE
                  /\ FuzzyKeys(registry, colorName) = {})
                => ret = C239

----------------------------------------------------------------------------
(* the scan, line by line *)

\* colour of the last valid definition of v on the line, NoColor without one
DefinedOn(line, v) == LastDefOf(line, v, NoColor)

IsOneLineBody(line) ==
    /\ ContextMatch(line) # 0
    /\ DotsIn(line) = 1 /\ OpenBracesIn(line) = 1 /\ CloseBracesIn(line) = 1
    /\ \E v \in Vars : DefinedOn(line, v) # NoColor

\* the scope around the line that is now read
Enclosing == IF scan.contextStack = <<>> THEN "global"
             ELSE scan.contextStack[Len(scan.contextStack)].name

InvalidValuesChangeNothing ==
    [][lastCall'.op = "scanLine" =>
          \A v \in Vars :
             IF DefinedOn(scan'.line, v) = NoColor
             THEN /\ MapHas(contextualColorVariables', v) <=> MapHas(contextualColorVariables, v)
                  /\ MapHas(contextualColorVariables, v) =>
                        MapGet(contextualColorVariables', v) = MapGet(contextualColorVariables, v)
                  /\ MapHas(globalColorVariables', v) <=> MapHas(globalColorVariables, v)
                  /\ MapHas(globalColorVariables, v) =>
                        MapGet(globalColorVariables', v) = MapGet(globalColorVariables, v)
             ELSE /\ MapHas(globalColorVariables', v)
                  /\ MapGet(globalColorVariables', v) = DefinedOn(scan'.line, v)
                  /\ \E c \in ContextsOf(contextualColorVariables', v) :
                        ColorAt(contextualColorVariables', v, c) = DefinedOn(scan'.line, v)]_vars

\* `--a: 300 0 0; --b: 1 2 3;' has been read twice in a row: --a, stored before
\* as {1,2,3}, is as it was and --b is stored
InvalidThenValidRead ==
    /\ lastCall.op = "scanLine"
    /\ scan.line = <<Def("--a", V300), Def("--b", V123)>>
    /\ MapHas(globalColorVariables, "--a") /\ MapGet(globalColorVariables, "--a") = C123
    /\ MapHas(globalColorVariables, "--b") /\ MapGet(globalColorVariables, "--b") = C123
    /\ MapHas(contextualColorVariables, "--a") /\ MapHas(contextualColorVariables, "--b")

\* a Map holds each of its keys once
UniqueKeys(m) == Len(m) = Cardinality(MapKeys(m))

\* C26: every variable has one entry per context; of the definitions of a
\* variable that a line holds, the last one that parses is stored, in one
\* context, over whatever that (variable, context) pair held before, and the
\* other contexts of the variable stay as they were.
OnePerPairLastWriteWins ==
    [][lastCall'.op = "scanLine" =>
          /\ UniqueKeys(contextualColorVariables')
          /\ \A v \in MapKeys(contextualColorVariables') :
                UniqueKeys(MapGet(contextualColorVariables', v))
          /\ \A v \in Vars :
                DefinedOn(scan'.line, v) # NoColor =>
                   \E c \in ContextsOf(contextualColorVariables', v) :
                      /\ ColorAt(contextualColorVariables', v, c) = DefinedOn(scan'.line, v)
                      /\ ContextsOf(contextualColorVariables', v)
                            = ContextsOf(contextualColorVariables, v) \cup {c}
                      /\ \A d \in ContextsOf(contextualColorVariables, v) \ {c} :
                            ColorAt(contextualColorVariables', v, d)
                               = ColorAt(contextualColorVariables, v, d)]_vars

\* `--a: 1 2 3; --a: 4 5 6;' has been read in the block of light, after a line
\* that defined --a there: light is the one context of --a and holds {4,5,6}
OverwroteInLight ==
    /\ lastCall.op = "scanLine"
    /\ scan.line = <<Def("--a", V123), Def("--a", V456)>>
    /\ scan.read = 3 /\ scan.block = "light"
    /\ Len(MapGet(contextualColorVariables, "--a")) = 1
    /\ ColorAt(contextualColorVariables, "--a", "light") = C456

\* the innermost single-class block among the open blocks, or global
RECURSIVE InnermostContext(_)
InnermostContext(nesting) ==
    IF nesting = <<>> THEN "global"
    ELSE IF nesting[Len(nesting)] # "-" THEN nesting[Len(nesting)]
    ELSE InnermostContext(SubSeq(nesting, 1, Len(nesting) - 1))

\* the top of the context stack after the line, or global
ActiveContext(stack) == IF stack = <<>> THEN "global" ELSE stack[Len(stack)].name

\* C27: in a text whose braces balance so far, whose single-class openers are
\* alone on their lines and which has no qualified selector, every definition that parses is stored under the
\* innermost single-class block open at it (global without one), and after the
\* line the active context is the innermost single-class block open there.
AttributionFollowsNesting ==
    [][(lastCall'.op = "scanLine" /\ scan'.tidy) =>
          /\ ActiveContext(scan'.contextStack) = InnermostContext(scan'.nesting)
          /\ \A n \in 1..Len(scan'.line) :
                (scan'.line[n].t = "def" /\ parseColorValue(scan'.line[n].val) # NoColor) =>
                   <<scan'.line[n].var,
                     InnermostContext(NestUpTo(scan.nesting, scan'.line, n - 1))>>
                       \in Pairs(contextualColorVariables')]_vars

\* the line has a compound or qualified selector and no single-class selector
HasOnlyCompoundSelector(line) ==
    /\ \E n \in 1..Len(line) : line[n].t \in {"compound", "qualified"}
    /\ \A n \in 1..Len(line) : line[n].t # "sel"

\* C28: a line with a compound or qualified selector adds no detected context
\* and pushes nothing on the context stack, and its braces are counted.
CompoundSelectorsOpenNoContext ==
    [][(lastCall'.op = "scanLine" /\ HasOnlyCompoundSelector(scan'.line)) =>
          /\ detectedContexts' = detectedContexts
          /\ Len(scan'.contextStack) <= Len(scan.contextStack)
          /\ scan'.contextStack = SubSeq(scan.contextStack, 1, Len(scan'.contextStack))
          /\ scan'.bracketDepth =
                Max(0, scan.bracketDepth + OpenBracesIn(scan'.line)
                          - CloseBracesIn(scan'.line))]_vars

\* the colour a variable with these contexts has under a mode: in auto the
\* colour of its last context, otherwise its colour in the context named by
\* the mode, or without one the colour of its first context
Flattened(contexts, mode) ==
    IF mode = "auto" THEN contexts[Len(contexts)].val.color
    ELSE IF mode \in MapKeys(contexts) THEN MapGet(contexts, mode).color
    ELSE contexts[1].val.color

SwitchSelectsDetectedContext ==
    (lastCall.op = "switchMode" /\ lastCall.mode \in detectedContexts) =>
        \A v \in Vars :
            lastCall.mode \in ContextsOf(contextualColorVariables, v) =>
               /\ MapHas(globalColorVariables, v)
               /\ MapGet(globalColorVariables, v)
                     = ColorAt(contextualColorVariables, v, lastCall.mode)

\* C31: an updateDecorations keeps every detected context and every
\* (variable, context) pair; unless it finds the Active Registry empty on a CSS
\* document it changes none of the three registries.
UpdateDecorationsKeepsContextData ==
    [][lastCall'.op = "updateDecorations" =>
          /\ detectedContexts \subseteq detectedContexts'
          /\ Pairs(contextualColorVariables) \subseteq Pairs(contextualColorVariables')
          /\ ~(Len(globalColorVariables) = 0 /\ lastCall'.arg = <<"css">>) =>
                /\ detectedContexts' = detectedContexts
                /\ contextualColorVariables' = contextualColorVariables
                /\ globalColorVariables' = globalColorVariables]_vars

\* an updateDecorations has scanned the dark theme into a registry in which
\* another file had left the context light: both contexts are detected
OneOffScanKeptLight ==
    /\ lastCall.op = "updateDecorations" /\ lastCall.arg = <<"css">>
    /\ detectedContexts = {"light", "dark"}
    /\ Pairs(contextualColorVariables) = {<<"--a", "dark">>}
    /\ Len(globalColorVariables) = 1

\* the hover provider's active map
HoverGlobalColorVariables ==
    IF hoverProvider.shared THEN globalColorVariables ELSE EmptyMap

\* C36: once a handler has run, the hover provider's breakdown is the
\* breakdown of the Contextual Registry and its active map is the Active
\* Registry.
HoverAgreesWithProvider ==
    lastCall.op # "none" =>
        /\ hoverProvider.contextualColorVariables
              = getContextualColorsMap(contextualColorVariables)
        /\ HoverGlobalColorVariables = globalColorVariables

\* the decoration types a stored list or the list of the pass in progress holds
Referenced ==
    UNION {{decorations.stored[i].val[j] : j \in 1..Len(decorations.stored[i].val)} :
              i \in 1..Len(decorations.stored)}
       \cup {decorations.assembling[j] : j \in 1..Len(decorations.assembling)}

\* C33: no decoration type that the list stored for a document or the list of
\* the pass in progress holds has been disposed by an eviction.
EvictionSparesReferenced == Referenced \cap decorations.disposed = {}

\* C34: a document of an enabled language that was changed is updated later.
ChangedDocumentIsUpdated ==
    \A document \in Documents :
        (document \in timers.unserved) ~> (document \notin timers.unserved)

\* C35: a watcher event leaves one timeout pending; a rescan is started by a
\* timeout only, after at least one event, one rescan for all the events since
\* the last one; and events that have come are followed by such a rescan.
CssEventsCoalesce ==
    /\ [][/\ lastCall'.op = "cssFileEvent" =>
               (timers'.fileChangeTimer = 1 /\ loop'.tasks = loop.tasks)
          /\ lastCall'.op = "fileChangeTimer" =>
               /\ timers.burst > 0 /\ timers'.burst = 0
               /\ timers'.fileChangeTimer = 0
               /\ Len(loop'.tasks) = Len(loop.tasks) + 1]_vars
    /\ (timers.burst > 0) ~> (timers.burst = 0)

\* a burst of three events has ended with the start of one rescan
BurstStartedOneRescan ==
    /\ lastCall.op = "fileChangeTimer"
    /\ timers.coalesced = 3
    /\ timers.burst = 0 /\ timers.fileChangeTimer = 0
    /\ Len(loop.tasks) = 1

\* C37: every context a variable of the Contextual Registry has a colour in
\* is `global' or a detected context.
ContextKeysAreDetected ==
    \A v \in MapKeys(contextualColorVariables) :
        ContextsOf(contextualColorVariables, v) \subseteq detectedContexts \cup {"global"}

\* a merge scan has left --a with a colour in a detected context and --b with
\* a colour in global only, while a context is detected that --b has no colour in
MergedDetectedAndGlobalKeys ==
    /\ lastCall.op = "scan" /\ lastCall.merge
    /\ MapKeys(contextualColorVariables) = {"--a", "--b"}
    /\ ContextsOf(contextualColorVariables, "--a") \cap detectedContexts # {}
    /\ ContextsOf(contextualColorVariables, "--b") = {"global"}
    /\ Cardinality(detectedContexts) = 2

\* C38: after each line of a scan the depths recorded on the context stack
\* increase strictly from bottom to top and are all below the brace depth, so
\* the stack is empty when the depth is zero.
StackDepthsIncreaseBelowDepth ==
    scan.active =>
        /\ \A i \in 1..Len(scan.contextStack) :
              /\ scan.contextStack[i].depth < scan.bracketDepth
              /\ i > 1 => scan.contextStack[i - 1].depth < scan.contextStack[i].depth
        /\ scan.bracketDepth = 0 => scan.contextStack = <<>>

\* three lines have been read and two contexts are open, one inside the other
NestedContextsAfterClose ==
    /\ scan.active /\ scan.read = 3
    /\ Len(scan.contextStack) = 2
    /\ scan.contextStack[1].depth = 0 /\ scan.contextStack[2].depth = 1
    /\ scan.bracketDepth = 2

----------------------------------------------------------------------------
(* the decoration cache *)

\* C23: the cache never holds more than MAX_CACHE_SIZE entries, and a call
\* with a key that is cached returns the cached decoration type and creates none.
CacheBoundedHitsReuse ==
    [][/\ Len(decorationCache') <= MAX_CACHE_SIZE
       /\ (lastCall'.op = "createDecoration" /\ MapHas(decorationCache, lastCall'.arg)) =>
             /\ ret' = MapGet(decorationCache, lastCall'.arg)
             /\ created' = created]_vars

\* the cache is full, more decoration types have been created than it holds,
\* and the last call was answered from the cache
FullCacheAnsweredHit ==
    /\ lastCall.op = "createDecoration" /\ cacheHistory.hit
    /\ Len(decorationCache) = MAX_CACHE_SIZE
    /\ created > MAX_CACHE_SIZE
    /\ ret <= created

\* the position of the entry of the cache that was used longest ago
LeastRecentlyUsed(cache) ==
    CHOOSE e \in 1..Len(cache) :
        \A j \in 1..Len(cache) :
            cacheHistory.lastUse[cache[e].val] <= cacheHistory.lastUse[cache[j].val]

\* the cache without the entry at position e
Without(cache, e) == SubSeq(cache, 1, e - 1) \o SubSeq(cache, e + 1, Len(cache))

\* C24: a hit moves its entry to the newest position and keeps the order of the
\* others; a miss on a full cache removes exactly the entry used longest ago
\* and puts the new entry in the newest position; a miss on a cache that is
\* not full removes nothing.
EvictsLeastRecentlyUsed ==
    [][lastCall'.op = "createDecoration" =>
          LET key == lastCall'.arg
              entry == [key |-> key, val |-> ret']
          IN IF MapHas(decorationCache, key)
             THEN decorationCache' =
                     Append(Without(decorationCache, MapIndex(decorationCache, key)), entry)
             ELSE IF Len(decorationCache) >= MAX_CACHE_SIZE
                  THEN decorationCache' =
                          Append(Without(decorationCache, LeastRecentlyUsed(decorationCache)),
                                 entry)
                  ELSE decorationCache' = Append(decorationCache, entry)]_vars

\* the decoration type created first was used again, and the miss on the full
\* cache after that has evicted the one created second and kept the first
HitSavedOldestFromEviction ==
    /\ lastCall.op = "createDecoration" /\ ~cacheHistory.hit
    /\ Len(decorationCache) = MAX_CACHE_SIZE
    /\ \E i \in 1..Len(decorationCache) : decorationCache[i].val = 1
    /\ \A i \in 1..Len(decorationCache) : decorationCache[i].val # 2
    /\ cacheHistory.lastUse[1] > cacheHistory.lastUse[2]

----------------------------------------------------------------------------
(* the event loop *)

\* the call has scanned a file, or has no file to scan, and has not yet
\* updated the hover provider
InCycle(t) == (t.pc = "scan" /\ t.index > 0) \/ t.pc \in {"rebuild", "hover"}

\* C25: while a call of initializeColorVariables is between its first scan
\* and the update of the hover provider, every step is the next statement of
\* that call: no scan, rebuild, decoration update or hover read of another
\* handler or another call comes in between.
ScansNeverInterleave ==
    [][\A i \in 1..Len(loop.tasks) :
          InCycle(loop.tasks[i]) => (lastCall'.op = "cycle" /\ loop'.by = i)]_vars

\* what a rescan of these files leaves in an empty registry
RescanOf(cssFiles) ==
    ScanFoundFiles(Registry({}, EmptyMap, EmptyMap), cssFiles, 0).contextualColorVariables

\* C32: when the last call in flight has returned, the Contextual Registry is
\* what a rescan of the files that were in the workspace at the latest call
\* yields (for a workspace that had a CSS file then).
LatestRescanWins ==
    (/\ loop.tasks = <<>>
     /\ lastCall.op = "cycle" /\ lastCall.mode = "editors"
     /\ loop.latest # <<>>)
        => contextualColorVariables = RescanOf(loop.latest)

\* two calls are in flight: one has scanned both themes and is about to
\* rebuild, the other still waits for findFiles
RescanWaitsBehindCycle ==
    /\ Len(loop.tasks) = 2
    /\ loop.current # 0
    /\ loop.tasks[loop.current].pc = "rebuild"
    /\ loop.tasks[loop.current].index = 2
    /\ \E j \in 1..2 : j # loop.current /\ loop.tasks[j].pc = "findFiles"
    /\ ContextsOf(contextualColorVariables, "--a") = {"light", "dark"}

====
